---- MODULE Spec2Model ----
(***************************************************************************)
(* Earthquake visualizer: the fetch pipeline of MapView.                   *)
(*   - getEarthquakes (src/src/api/earthquakes.js): in-process map, then   *)
(*     durable store, then network; normalise, filter, sort, cache, cap.   *)
(*   - getCache / setCache (src/src/lib/cache.js): durable store with TTL. *)
(*   - MapView's fetch effect (src/src/components/MapView.jsx): one fetch  *)
(*     per change of the debounced inputs, cancelled by the next one.      *)
(* Times are milliseconds, magnitudes are tenths (6.2 is 62).              *)
(***************************************************************************)
EXTENDS Integers, Sequences, FiniteSets, TLC

(* ------------------------------ bounds -------------------------------- *)
MaxFetches == 2
MaxTime == 600000

(* ------------------------- program constants -------------------------- *)
CACHE_TTL == 300000
FETCH_TIMEOUT == 15000
MEM_CAP == 50
\* an undefined magnitude (properties.mag missing)
Absent == -1
\* the error state null
Null == "null"

Min(a, b) == IF a <= b THEN a ELSE b

\* Array.prototype.slice(0, n)
Slice(s, n) == SubSeq(s, 1, Min(n, Len(s)))

\* (x || 0) on a magnitude
Mag0(m) == IF m = Absent THEN 0 ELSE m

(* ------------------------------ inputs -------------------------------- *)
\* raw GeoJSON features. rec: the record is an object or null; props: properties is
\* an object, missing or null; geo: geometry is a point, an object without
\* coordinates ("empty"), an object with coordinates null ("nullcoords"), missing or null
RawA == [id |-> "a", rec |-> "object", props |-> "object", mag |-> 62, time |-> 3,
         geo |-> "point", lon |-> 100, lat |-> 10]
RawB == [id |-> "b", rec |-> "object", props |-> "object", mag |-> 40, time |-> 2,
         geo |-> "point", lon |-> -120, lat |-> 35]
RawC == [id |-> "c", rec |-> "object", props |-> "object", mag |-> Absent, time |-> 1,
         geo |-> "missing", lon |-> 0, lat |-> 0]

\* the JSON documents the feed may answer with
Bodies == { <<RawC, RawB, RawA>> }

NoBounds == [present |-> FALSE, north |-> 0, south |-> 0, east |-> 0, west |-> 0, zoom |-> 0]
EastBounds == [present |-> TRUE, north |-> 90, south |-> -90, east |-> 180, west |-> 0, zoom |-> 2]

\* the values of the fetch effect's dependencies
\* (debouncedRange, debouncedMinMagnitude, debouncedBounds, geographicFiltering, performanceMode)
DefaultDeps ==
  [range |-> "24h", minMagnitude |-> 0, bounds |-> NoBounds,
   geographicFiltering |-> TRUE, performanceMode |-> "balanced"]

DepsSet ==
  { DefaultDeps,
    [DefaultDeps EXCEPT !.bounds = EastBounds],
    [DefaultDeps EXCEPT !.minMagnitude = 40, !.geographicFiltering = FALSE, !.performanceMode = "high"] }

\* how far the clock moves in one step when no timer is due earlier
Delays == { CACHE_TTL }

\* what a failed request reports
HttpError == "HTTP 500: Internal Server Error"
TransportError == "Failed to fetch"
ParseError == "Unexpected end of JSON input"
NormalizeError == "Cannot read properties of null"

(* --------------------------- pure functions --------------------------- *)
RangeToFeed(range) ==
  IF range = "7d" THEN "all_week"
  ELSE IF range = "30d" THEN "all_month"
  ELSE "all_day"

\* `${url}|min:${minMagnitude}`
CacheKey(range, minMagnitude) == <<RangeToFeed(range), minMagnitude>>

\* the destructuring defaults of normalizeFeature cover undefined, not null:
\* properties: null and geometry: null throw a TypeError
NormalizeThrows(f) == f.rec = "object" /\ (f.props = "null" \/ f.geo = "null")

BatchThrows(json) == \E i \in 1..Len(json) : NormalizeThrows(json[i])

\* what normalizeFeature returns when it does not throw
normalizeFeature(f) ==
  LET hasProps == f.rec = "object" /\ f.props = "object"
      hasPoint == f.rec = "object" /\ f.geo = "point"
  IN [id |-> IF f.rec = "object" THEN f.id ELSE "undefined",
      magnitude |-> IF hasProps THEN f.mag ELSE Absent,
      time |-> IF hasProps THEN f.time ELSE Absent,
      lat |-> IF hasPoint THEN f.lat ELSE 0,
      lon |-> IF hasPoint THEN f.lon ELSE 0]

MapNormalize(s) == [i \in 1..Len(s) |-> normalizeFeature(s[i])]

\* mutant: a sort that puts an element before its equals
InsertDescBeforeTies(s, e) ==
  LET k == Cardinality({i \in 1..Len(s) : Mag0(s[i].magnitude) > Mag0(e.magnitude)})
  IN SubSeq(s, 1, k) \o <<e>> \o SubSeq(s, k + 1, Len(s))

\* Array.prototype.sort with (a, b) => (b.magnitude || 0) - (a.magnitude || 0): stable
InsertDesc(s, e) ==
  LET k == Cardinality({i \in 1..Len(s) : Mag0(s[i].magnitude) >= Mag0(e.magnitude)})
  IN SubSeq(s, 1, k) \o <<e>> \o SubSeq(s, k + 1, Len(s))

RECURSIVE SortDesc(_)
SortDesc(s) ==
  IF s = <<>> THEN <<>>
  ELSE InsertDesc(SortDesc(SubSeq(s, 1, Len(s) - 1)), s[Len(s)])

\* features.map(normalizeFeature).filter(...).sort(...)
Normalized(json, minMagnitude) ==
  SortDesc(SelectSeq(MapNormalize(json),
                     LAMBDA f : Mag0(f.magnitude) >= Mag0(minMagnitude)))

InBounds(eq, b) ==
  /\ eq.lat >= b.south /\ eq.lat <= b.north
  /\ eq.lon >= b.west /\ eq.lon <= b.east

MaxResultsOf(performanceMode) ==
  IF performanceMode = "high" THEN 3000
  ELSE IF performanceMode = "balanced" THEN 2000
  ELSE 1500

(* ------------------------------- state -------------------------------- *)
VARIABLES
  now,        \* Date.now()
  mem,        \* _cache: the entries [key, ts, features] in insertion order
  store,      \* localforage: key -> [ts, ttl, value]
  storeWorks, \* FALSE where localforage throws (private mode, no IndexedDB)
  calls,      \* the fetches of MapView's effect, by number
  cur,        \* the number of the latest effect run
  deps,       \* the effect's dependencies at the last render
  phase,      \* "run": an effect body is due; "idle": none is
  allData, fromCache, error, loading,  \* MapView's state
  last,       \* the latest getEarthquakes call made outside MapView's effect
  clr,        \* the clearAll in progress
  dbn,        \* the debounced inputs of MapView and their timers
  vis         \* MapView's visibleData computation

vars == <<now, mem, store, storeWorks, calls, cur, deps, phase, allData, fromCache, error, loading,
          last, clr, dbn, vis>>
mapViewState == <<allData, fromCache, error, loading>>
\* the state of MapView's fetch effect
fetchVars == <<calls, cur, deps, phase, allData, fromCache, error, loading>>
\* the state the fetch effect does not touch
aside == <<last, clr, dbn, vis>>

NoResult == [ok |-> FALSE, features |-> <<>>, fromCache |-> FALSE, error |-> "none"]

IdleCall ==
  [pc |-> "idle", range |-> "24h", minMagnitude |-> 0, maxResults |-> 0,
   wrapped |-> FALSE, bounds |-> NoBounds, wrapMax |-> 0,
   mounted |-> FALSE, sigAborted |-> FALSE,
   start |-> 0, timerArmed |-> FALSE, listenerOn |-> FALSE, ctrlAborted |-> FALSE,
   json |-> <<>>, result |-> NoResult,
   served |-> "none", netIssued |-> FALSE, dRead |-> FALSE,
   net |-> "none", handled |-> "none"]

Fetches == 1..MaxFetches

\* the parts of the state a specification leaves out
NoLast ==
  [n |-> 0, feed |-> <<>>, call |-> IdleCall, before |-> 0, hadKey |-> FALSE, prev |-> 0]
NoClear ==
  [pc |-> "none", by |-> "none", keys |-> {}, pending |-> {}, removed |-> {},
   result |-> 0, n0 |-> 0]
NoDebounce == [on |-> FALSE]
NoVisible == [on |-> FALSE]

\* the durable store outlives a page load: empty, or what an earlier session wrote
InitialStores ==
  { [k \in {} |-> 0],
    [k \in {CacheKey("24h", 0)} |->
       [ts |-> 0, ttl |-> CACHE_TTL, value |-> Normalized(<<RawC, RawB, RawA>>, 0)]] }

Init ==
  /\ now = 0
  /\ mem = <<>>
  /\ store \in InitialStores
  /\ storeWorks \in BOOLEAN
  /\ calls = [i \in Fetches |-> IdleCall]
  /\ cur = 0
  /\ deps = DefaultDeps
  /\ phase = "run"
  /\ allData = <<>>
  /\ fromCache = FALSE
  /\ error = Null
  /\ loading = TRUE
  /\ last = NoLast /\ clr = NoClear /\ dbn = NoDebounce /\ vis = NoVisible

(* --------------------------- the in-process map ----------------------- *)
MemKeys == {mem[j].key : j \in 1..Len(mem)}

\* _cache.get(key): the entry's position, 0 when there is none
MemIndexIn(m, key) ==
  IF \E j \in 1..Len(m) : m[j].key = key
  THEN CHOOSE j \in 1..Len(m) : m[j].key = key
  ELSE 0

MemIndex(key) == MemIndexIn(mem, key)

\* _cache.set(key, {ts, features}): a key already present keeps its position
MemSet(m, key, ts, features) ==
  LET e == [key |-> key, ts |-> ts, features |-> features]
      j == MemIndexIn(m, key)
  IN IF j = 0 THEN Append(m, e) ELSE [m EXCEPT ![j] = e]

\* mutant: the entry inserted first is dropped, whatever its timestamp
OldestIsFirst(m) == 1

\* the loop over _cache.entries(): the first entry, in insertion order, of least ts
OldestIndex(m) ==
  CHOOSE j \in 1..Len(m) :
    /\ \A k \in 1..Len(m) : m[j].ts <= m[k].ts
    /\ \A k \in 1..(j - 1) : m[k].ts > m[j].ts

MemDelete(m, j) == SubSeq(m, 1, j - 1) \o SubSeq(m, j + 1, Len(m))

\* if (_cache.size > 50) drop oldest
EvictOldest(m) == IF Len(m) > MEM_CAP THEN MemDelete(m, OldestIndex(m)) ELSE m

\* cached && (now - cached.ts) < CACHE_TTL
MemFresh(e) == now - e.ts < CACHE_TTL

MemHit(key) == MemIndex(key) # 0 /\ MemFresh(mem[MemIndex(key)])

(* --------------------------- the durable store ------------------------ *)
\* localforage.setItem(key, {ts, ttl, value})
StoreSet(s, key, payload) ==
  [k \in DOMAIN s \cup {key} |-> IF k = key THEN payload ELSE s[k]]

\* localforage.removeItem(key)
StoreRemove(s, key) == [k \in DOMAIN s \ {key} |-> s[k]]

\* mutant: an entry exactly ttl old counts as expired
ExpiredAtTtl(p) == now - p.ts >= p.ttl

\* Date.now() - ts > (ttl || 0)
Expired(p) == now - p.ts > p.ttl

(* --------------------------- getEarthquakes --------------------------- *)
KeyOf(c) == CacheKey(c.range, c.minMagnitude)

\* mutant: a result that is not capped
ResultUncapped(features, cached, maxResults) ==
  [ok |-> TRUE, features |-> features, fromCache |-> cached, error |-> "none"]

\* { ok: true, count, features: capped, fromCache }; a missing fromCache reads as false
Result(features, cached, maxResults) ==
  [ok |-> TRUE, features |-> Slice(features, maxResults), fromCache |-> cached, error |-> "none"]

Failure(msg) == [ok |-> FALSE, features |-> <<>>, fromCache |-> FALSE, error |-> msg]

Settle(c, res, by) == [c EXCEPT !.pc = "settled", !.result = res, !.served = by, !.start = 0]

\* mutant: a miss in the in-process map goes straight to the network
getEarthquakesNoDurable(c) ==
  IF MemHit(KeyOf(c))
  THEN Settle(c, Result(mem[MemIndex(KeyOf(c))].features, TRUE, c.maxResults), "memory")
  ELSE [c EXCEPT !.pc = "headers", !.netIssued = TRUE, !.start = now,
                 !.timerArmed = TRUE, !.listenerOn = TRUE]

\* the synchronous start of getEarthquakes: the in-process lookup
getEarthquakesEntry(c) ==
  IF MemHit(KeyOf(c))
  THEN Settle(c, Result(mem[MemIndex(KeyOf(c))].features, TRUE, c.maxResults), "memory")
  ELSE [c EXCEPT !.pc = "dget"]

\* the start of fetchJson: controller, timer, listener on the caller's signal
fetchJsonEntry(c) ==
  [c EXCEPT !.pc = "headers", !.netIssued = TRUE, !.start = now,
            !.timerArmed = ~c.sigAborted,
            !.listenerOn = ~c.sigAborted,
            !.ctrlAborted = c.sigAborted]

\* mutant: a catch that does not recognise AbortError
ErrorResultNoAbort(name, message) == Failure(message)

\* the catch of getEarthquakes
ErrorResult(name, message) ==
  Failure(IF name = "AbortError" THEN "aborted" ELSE message)

\* mutant: a cleanup that leaves the listener on the caller's signal
ClearedTimerOnly(c) == [c EXCEPT !.timerArmed = FALSE]

\* fetchJson's cleanup on both exits: clearTimeout, removeEventListener
Cleared(c) == [c EXCEPT !.timerArmed = FALSE, !.listenerOn = FALSE]

(* ------------------------------ actions ------------------------------- *)
\* mutant: a cleanup that forgets controller.abort()
EffectCleanupNoAbort(c) == [c EXCEPT !.mounted = FALSE]

\* the effect's cleanup, run when a dependency has changed
EffectCleanupCall(c) ==
  [c EXCEPT !.mounted = FALSE, !.sigAborted = TRUE,
            !.ctrlAborted = c.ctrlAborted \/ c.listenerOn]

EffectCleanup(d) ==
  /\ phase = "idle"
  /\ cur < MaxFetches
  /\ d # deps
  /\ deps' = d
  /\ phase' = "run"
  /\ calls' = [calls EXCEPT ![cur] = EffectCleanupCall(calls[cur])]
  /\ UNCHANGED <<now, mem, store, storeWorks, cur, allData, fromCache, error, loading>>
  /\ UNCHANGED aside

\* fetchParams and the choice of fetchFunction
NewCall(d) ==
  [IdleCall EXCEPT
     !.range = d.range, !.minMagnitude = d.minMagnitude,
     !.wrapped = d.geographicFiltering,
     !.bounds = IF d.geographicFiltering THEN d.bounds ELSE NoBounds,
     !.wrapMax = MaxResultsOf(d.performanceMode),
     !.maxResults = IF d.geographicFiltering
                    THEN MaxResultsOf(d.performanceMode) * 2
                    ELSE MaxResultsOf(d.performanceMode),
     !.mounted = TRUE]

\* the effect's body
EffectBody ==
  /\ phase = "run"
  /\ cur < MaxFetches
  /\ cur' = cur + 1
  /\ phase' = "idle"
  /\ loading' = TRUE
  /\ error' = Null
  /\ calls' = [calls EXCEPT ![cur + 1] = getEarthquakesEntry(NewCall(deps))]
  /\ UNCHANGED <<now, mem, store, storeWorks, deps, allData, fromCache>>
  /\ UNCHANGED aside

\* getCache(key): the value, or null on no entry, on an expired entry and on a throw
getCache(key) ==
  IF ~storeWorks \/ key \notin DOMAIN store \/ Expired(store[key])
  THEN [hit |-> FALSE, value |-> <<>>]
  ELSE [hit |-> TRUE, value |-> store[key].value]

\* getCache removes the entry it finds expired
StoreAfterGetCache(key) ==
  IF storeWorks /\ key \in DOMAIN store /\ Expired(store[key])
  THEN StoreRemove(store, key)
  ELSE store

\* mutant: a failing store ends the call
AfterGetCacheThrowing(c, got) ==
  IF ~storeWorks THEN Settle([c EXCEPT !.dRead = TRUE], Failure("cache unavailable"), "none")
  ELSE IF got.hit
  THEN Settle([c EXCEPT !.dRead = TRUE],
              Result(got.value, TRUE, c.maxResults), "durable")
  ELSE [c EXCEPT !.dRead = TRUE, !.pc = "headers", !.netIssued = TRUE, !.start = now,
                 !.timerArmed = ~c.sigAborted, !.listenerOn = ~c.sigAborted,
                 !.ctrlAborted = c.sigAborted]

\* getEarthquakes after "await cache.getCache(cacheKey)"
AfterGetCache(c, got) ==
  IF got.hit
  THEN Settle([c EXCEPT !.dRead = TRUE],
              Result(got.value, TRUE, c.maxResults), "durable")
  ELSE fetchJsonEntry([c EXCEPT !.dRead = TRUE])

\* mutant: a durable hit that does not warm the map
MemNotWarmed(key, got) == mem

\* mutant: the map takes whatever the lookup returned, a miss included
MemWarmedAlways(key, got) == MemSet(mem, key, now, got.value)

\* _cache after the durable lookup: a hit warms it
MemAfterGetCache(key, got) ==
  IF got.hit THEN MemSet(mem, key, now, got.value) ELSE mem

DurableRead(i) ==
  /\ phase = "idle"
  /\ calls[i].pc = "dget"
  /\ calls' = [calls EXCEPT ![i] = AfterGetCache(calls[i], getCache(KeyOf(calls[i])))]
  /\ mem' = MemAfterGetCache(KeyOf(calls[i]), getCache(KeyOf(calls[i])))
  /\ store' = StoreAfterGetCache(KeyOf(calls[i]))
  /\ UNCHANGED <<now, storeWorks, cur, deps, phase, allData, fromCache, error, loading>>
  /\ UNCHANGED aside

\* setTimeout(() => controller.abort(), timeout)
TimeoutFire(i) ==
  /\ phase = "idle"
  /\ calls[i].timerArmed
  /\ now >= calls[i].start + FETCH_TIMEOUT
  /\ calls' = [calls EXCEPT ![i].timerArmed = FALSE, ![i].ctrlAborted = TRUE]
  /\ UNCHANGED <<now, mem, store, storeWorks, cur, deps, phase, allData, fromCache, error, loading>>
  /\ UNCHANGED aside

\* await fetch(...) resolves with the response headers
AfterHeaders(c, ok) ==
  IF ok THEN [Cleared(c) EXCEPT !.pc = "body"]
  ELSE Settle([Cleared(c) EXCEPT !.net = "http"], ErrorResult("Error", HttpError), "network")

HeadersArrive(i, ok) ==
  /\ phase = "idle"
  /\ calls[i].pc = "headers"
  /\ ~calls[i].ctrlAborted
  /\ calls' = [calls EXCEPT ![i] = AfterHeaders(calls[i], ok)]
  /\ UNCHANGED <<now, mem, store, storeWorks, cur, deps, phase, allData, fromCache, error, loading>>
  /\ UNCHANGED aside

\* await fetch(...) rejects: the controller aborted, or the transport failed
AfterReject(c) ==
  IF c.ctrlAborted
  THEN Settle([Cleared(c) EXCEPT !.net = "abort"], ErrorResult("AbortError", "The user aborted a request."), "network")
  ELSE Settle([Cleared(c) EXCEPT !.net = "transport"], ErrorResult("TypeError", TransportError), "network")

AbortReject(i) ==
  /\ phase = "idle"
  /\ calls[i].pc = "headers"
  /\ calls[i].ctrlAborted
  /\ calls' = [calls EXCEPT ![i] = AfterReject(calls[i])]
  /\ UNCHANGED <<now, mem, store, storeWorks, cur, deps, phase, allData, fromCache, error, loading>>
  /\ UNCHANGED aside

TransportFail(i) ==
  /\ phase = "idle"
  /\ calls[i].pc = "headers"
  /\ ~calls[i].ctrlAborted
  /\ calls' = [calls EXCEPT ![i] = AfterReject(calls[i])]
  /\ UNCHANGED <<now, mem, store, storeWorks, cur, deps, phase, allData, fromCache, error, loading>>
  /\ UNCHANGED aside

\* await res.json() resolves: normalise, cache, cap
AfterBody(c, body) ==
  IF BatchThrows(body)
  THEN Settle([c EXCEPT !.json = body, !.net = "malformed"],
              ErrorResult("TypeError", NormalizeError), "network")
  ELSE Settle([c EXCEPT !.json = body, !.net = "ok"],
              Result(Normalized(body, c.minMagnitude), FALSE, c.maxResults), "network")

\* cache.setCache(cacheKey, normalized, CACHE_TTL).catch(() => {})
setCache(key, value, ttl) ==
  IF storeWorks THEN StoreSet(store, key, [ts |-> now, ttl |-> ttl, value |-> value])
  ELSE store

BodyArrive(i, body) ==
  /\ phase = "idle"
  /\ calls[i].pc = "body"
  /\ calls' = [calls EXCEPT ![i] = AfterBody(calls[i], body)]
  /\ mem' = IF BatchThrows(body) THEN mem
            ELSE EvictOldest(MemSet(mem, KeyOf(calls[i]), now,
                                    Normalized(body, calls[i].minMagnitude)))
  /\ store' = IF BatchThrows(body) THEN store
              ELSE setCache(KeyOf(calls[i]), Normalized(body, calls[i].minMagnitude), CACHE_TTL)
  /\ UNCHANGED <<now, storeWorks, cur, deps, phase, allData, fromCache, error, loading>>
  /\ UNCHANGED aside

\* await res.json() rejects
BodyFail(i) ==
  /\ phase = "idle"
  /\ calls[i].pc = "body"
  /\ calls' = [calls EXCEPT ![i] =
                 Settle([calls[i] EXCEPT !.net = "parse"], ErrorResult("SyntaxError", ParseError), "network")]
  /\ UNCHANGED <<now, mem, store, storeWorks, cur, deps, phase, allData, fromCache, error, loading>>
  /\ UNCHANGED aside

\* getEarthquakesWithBounds after its await
WithBounds(c) ==
  LET r == c.result
      filtered == SelectSeq(r.features, LAMBDA eq : InBounds(eq, c.bounds))
  IN IF ~c.wrapped \/ ~r.ok \/ ~c.bounds.present THEN r
     ELSE [r EXCEPT !.features = Slice(filtered, c.wrapMax)]

\* mutant: the callback without its mounted guard
HandlesAlways(c) == TRUE

\* does the .then callback go past "if (!mounted) return"
Handles(c) == c.mounted

\* a fetch whose promise chain has run to its end keeps nothing but its signal
Finished(c) ==
  [IdleCall EXCEPT !.pc = "done", !.mounted = c.mounted, !.sigAborted = c.sigAborted,
                   !.handled = IF Handles(c) THEN "applied" ELSE "discarded",
                   !.net = IF Handles(c) THEN c.net ELSE "none"]

\* mutant: a failure clears the list
DataAfterClearing(r, data) == IF r.ok THEN r.features ELSE <<>>

\* the .then callback's updates of MapView's state
DataAfter(r, data) == IF r.ok THEN r.features ELSE data

FromCacheAfter(r, flag) == IF r.ok THEN r.fromCache ELSE flag

ErrorAfter(r, err) ==
  IF r.ok THEN Null
  ELSE IF r.error # "aborted" THEN r.error
  ELSE err

\* the .then callback of the effect
ThenHandler(i) ==
  /\ phase = "idle"
  /\ calls[i].pc = "settled"
  /\ calls' = [calls EXCEPT ![i] = Finished(calls[i])]
  /\ IF Handles(calls[i])
     THEN /\ allData' = DataAfter(WithBounds(calls[i]), allData)
          /\ fromCache' = FromCacheAfter(WithBounds(calls[i]), fromCache)
          /\ error' = ErrorAfter(WithBounds(calls[i]), error)
          /\ loading' = FALSE
     ELSE UNCHANGED <<allData, fromCache, error, loading>>
  /\ UNCHANGED <<now, mem, store, storeWorks, cur, deps, phase>>
  /\ UNCHANGED aside

\* the timers that are set
Deadlines == {calls[i].start + FETCH_TIMEOUT : i \in {j \in Fetches : calls[j].timerArmed}}

\* time passes up to the next timer
TickToTimer ==
  /\ phase = "idle"
  /\ \E t \in Deadlines : /\ t > now
                          /\ \A u \in Deadlines : t <= u
                          /\ now' = t
  /\ UNCHANGED <<mem, store, storeWorks, calls, cur, deps, phase, allData, fromCache, error, loading>>
  /\ UNCHANGED aside

\* time passes while no timer is set
Tick(d) ==
  /\ phase = "idle"
  /\ Deadlines = {}
  /\ now + d <= MaxTime
  /\ now' = now + d
  /\ UNCHANGED <<mem, store, storeWorks, calls, cur, deps, phase, allData, fromCache, error, loading>>
  /\ UNCHANGED aside

Next ==
  \/ \E d \in DepsSet : EffectCleanup(d)
  \/ EffectBody
  \/ \E i \in Fetches : DurableRead(i)
  \/ \E i \in Fetches : TimeoutFire(i)
  \/ \E i \in Fetches, ok \in BOOLEAN : HeadersArrive(i, ok)
  \/ \E i \in Fetches : AbortReject(i)
  \/ \E i \in Fetches : TransportFail(i)
  \/ \E i \in Fetches, body \in Bodies : BodyArrive(i, body)
  \/ \E i \in Fetches : BodyFail(i)
  \/ \E i \in Fetches : ThenHandler(i)
  \/ TickToTimer
  \/ \E d \in Delays : Tick(d)

Spec == Init /\ [][Next]_vars

(* ------------------------------ claims -------------------------------- *)
Started == {i \in Fetches : calls[i].pc # "idle"}
Superseded(i) == calls[i].pc # "idle" /\ ~calls[i].mounted
HandlerStep(i) == calls[i].pc = "settled" /\ calls'[i].pc = "done"

\* C1: a step of a superseded fetch - whatever its outcome and whenever it comes -
\* leaves allData, fromCache, error and loading as they are.
C1_StaleOutcomeDiscarded ==
  [][\A i \in Fetches :
       (Superseded(i) /\ calls'[i] # calls[i]) => mapViewState' = mapViewState]_vars

\* a superseded fetch came back with a list and MapView dropped it
C1_Witness ==
  \E i \in Fetches :
    /\ calls[i].handled = "discarded"
    /\ \E j \in Fetches : j > i /\ calls[j].pc \in {"settled", "done", "headers"}

\* C2: at most one fetch has a signal that is not aborted, and when an effect body
\* is due (the next getEarthquakes call not yet issued) every earlier signal is aborted.
C2_OneLiveSignal ==
  /\ Cardinality({i \in Started : ~calls[i].sigAborted}) <= 1
  /\ phase = "run" => \A i \in Started : calls[i].sigAborted
  /\ \A i \in Started : i < cur => calls[i].sigAborted

\* the second fetch is issued while the first, aborted, is still in flight
C2_Witness ==
  /\ cur = 2
  /\ calls[1].sigAborted /\ calls[1].pc \in {"dget", "headers", "body"}
  /\ ~calls[2].sigAborted /\ calls[2].pc \in {"dget", "headers", "body"}

\* C3: the handler of a fetch that ended in an error or in 'aborted' leaves allData
\* and fromCache as they were.
C3_FailureKeepsData ==
  [][\A i \in Fetches :
       (HandlerStep(i) /\ ~calls[i].result.ok) =>
          /\ allData' = allData
          /\ fromCache' = fromCache]_vars

\* an error is displayed over the data of an earlier successful fetch
C3_Witness ==
  /\ cur >= 1
  /\ error = TransportError
  /\ ~loading
  /\ allData # <<>>
  /\ calls[cur].handled = "applied"

\* C4: an abort (by the caller's signal or by the timeout) yields ok:false with
\* error 'aborted', and the displayed error stays null; an HTTP or transport failure
\* yields ok:false with its message, which is displayed when the fetch is handled.
C4_AbortIsNotAnError ==
  [][\A i \in Fetches : HandlerStep(i) =>
       /\ calls[i].net = "abort" =>
            /\ calls[i].result = Failure("aborted")
            /\ calls[i].mounted => error' = Null
       /\ calls[i].net \in {"http", "transport"} =>
            /\ ~calls[i].result.ok
            /\ calls[i].result.error = (IF calls[i].net = "http" THEN HttpError ELSE TransportError)
            /\ calls[i].mounted => error' = calls[i].result.error]_vars

\* the current fetch timed out: it is over, nothing is loading and no error shows
C4_Witness ==
  /\ cur >= 1
  /\ calls[cur].pc = "done"
  /\ calls[cur].handled = "applied"
  /\ calls[cur].net = "abort"
  /\ error = Null
  /\ ~loading

\* C5: a request is abortable for its whole duration: while the response is not
\* completely received (headers or body outstanding), once the caller's signal has
\* aborted or the 15000 ms have passed the request's controller is aborted.
C5_AbortableThroughout ==
  \A i \in Fetches :
    (/\ calls[i].pc \in {"headers", "body"}
     /\ calls[i].sigAborted \/ now > calls[i].start + FETCH_TIMEOUT)
    => calls[i].ctrlAborted

SettleStep(i) == calls[i].pc # "settled" /\ calls'[i].pc = "settled"
EntryStep(i) == calls[i].pc = "idle" /\ calls'[i].pc # "idle"
DurableStep(i) == calls[i].pc = "dget" /\ calls'[i].pc # "dget"
NetErrors == {"http", "transport", "abort", "parse"}

\* C6: the network request is issued only by a call whose in-process lookup and
\* then durable lookup both missed; a result has fromCache = true exactly when the
\* call issued no network request.
C6_NetworkOnlyAfterBothMiss ==
  [][\A i \in Fetches :
       /\ (EntryStep(i) /\ calls'[i].pc # "settled") =>
            /\ calls'[i].pc = "dget"
            /\ ~calls'[i].netIssued
            /\ ~MemHit(KeyOf(calls'[i]))
       /\ (~calls[i].netIssued /\ calls'[i].netIssued) =>
            /\ calls[i].pc = "dget"
            /\ calls'[i].dRead
            /\ ~getCache(KeyOf(calls[i])).hit
       /\ SettleStep(i) => (calls'[i].result.fromCache <=> ~calls'[i].netIssued)]_vars

\* a call that missed both tiers, went to the network and returned a live list
C6_Witness ==
  \E i \in Fetches :
    /\ calls[i].pc = "settled"
    /\ calls[i].dRead /\ calls[i].netIssued
    /\ calls[i].result.ok /\ ~calls[i].result.fromCache

\* C7: in each tier an entry is served iff now - storedAt <= ttl, and the read that
\* finds an entry expired deletes it from that tier.
C7_ServedIffWithinTtl ==
  [][\A i \in Fetches :
       /\ (EntryStep(i) /\ MemIndex(KeyOf(calls'[i])) # 0) =>
            LET k == KeyOf(calls'[i])
                e == mem[MemIndex(k)]
            IN /\ (calls'[i].served = "memory") <=> (now - e.ts <= CACHE_TTL)
               /\ now - e.ts > CACHE_TTL => MemIndexIn(mem', k) = 0
       /\ (DurableStep(i) /\ storeWorks /\ KeyOf(calls[i]) \in DOMAIN store) =>
            LET k == KeyOf(calls[i])
                p == store[k]
            IN /\ (calls'[i].served = "durable") <=> (now - p.ts <= p.ttl)
               /\ now - p.ts > p.ttl => k \notin DOMAIN store']_vars

\* C8: what setCache stored under a key is what getCache returns while the elapsed
\* time is at most ttl; beyond ttl getCache returns null and the entry is gone.
C8_DurableRoundTrip ==
  [][\A i \in Fetches :
       /\ (calls[i].pc = "body" /\ calls'[i].net = "ok" /\ storeWorks) =>
            store'[KeyOf(calls[i])] =
              [ts |-> now, ttl |-> CACHE_TTL,
               value |-> Normalized(calls'[i].json, calls[i].minMagnitude)]
       /\ (DurableStep(i) /\ storeWorks /\ KeyOf(calls[i]) \in DOMAIN store) =>
            LET k == KeyOf(calls[i])
                p == store[k]
            IN IF now - p.ts <= p.ttl
               THEN /\ calls'[i].pc = "settled"
                    /\ calls'[i].result.ok
                    /\ calls'[i].result.features = Slice(p.value, calls[i].maxResults)
                    /\ store' = store
               ELSE /\ calls'[i].pc = "headers"
                    /\ k \notin DOMAIN store']_vars

\* an entry exactly ttl old is read and served whole
C8_Witness ==
  /\ storeWorks
  /\ \E i \in Fetches :
       /\ calls[i].pc = "settled" /\ calls[i].served = "durable"
       /\ KeyOf(calls[i]) \in DOMAIN store
       /\ now - store[KeyOf(calls[i])].ts = CACHE_TTL
       /\ calls[i].result.features = store[KeyOf(calls[i])].value
       /\ Len(calls[i].result.features) = 3

C10_CacheFailureIsAMiss ==
  [][\A i \in Fetches :
       /\ (DurableStep(i) /\ ~storeWorks) =>
            /\ calls'[i] = fetchJsonEntry([calls[i] EXCEPT !.dRead = TRUE])
            /\ mem' = mem
       /\ (calls[i].pc = "body" /\ calls'[i].net = "ok" /\ ~storeWorks) =>
            /\ calls'[i].pc = "settled"
            /\ calls'[i].result =
                 Result(Normalized(calls'[i].json, calls[i].minMagnitude), FALSE,
                        calls[i].maxResults)
       /\ (SettleStep(i) /\ ~calls'[i].result.ok) => calls'[i].net \in NetErrors]_vars

\* the store holds a valid entry but throws: the call went to the network and
\* returned the fetched list
C10_Witness ==
  /\ ~storeWorks
  /\ \E i \in Fetches :
       /\ calls[i].pc = "settled" /\ calls[i].net = "ok" /\ calls[i].result.ok
       /\ Len(calls[i].result.features) > 0
       /\ KeyOf(calls[i]) \in DOMAIN store
       /\ now - store[KeyOf(calls[i])].ts <= CACHE_TTL

(* ---------------- getEarthquakes called outside the effect ------------- *)
\* One getEarthquakes call run from its start to its return with no other
\* call in between (a caller such as Charts): the specifications below use it
\* to examine what a call does to the caches and what list it returns.
MaxCalls == 3
MaxEvictTime == 3

SeqStart(range, minMagnitude, maxResults) ==
  [IdleCall EXCEPT !.range = range, !.minMagnitude = minMagnitude,
                   !.maxResults = maxResults, !.mounted = TRUE]

\* the two cache lookups
SeqLookup(c) ==
  LET e == getEarthquakesEntry(c)
  IN IF e.pc = "settled" THEN e ELSE AfterGetCache(e, getCache(KeyOf(c)))

\* fetchJson and what follows it, by what the network does
SeqNet(c, out) ==
  IF out.kind = "ok" THEN AfterBody(AfterHeaders(c, TRUE), out.body)
  ELSE IF out.kind = "http" THEN AfterHeaders(c, FALSE)
  ELSE AfterReject(c)

NetOutcomes(bodies) ==
  {[kind |-> "ok", body |-> b] : b \in bodies}
    \cup {[kind |-> "http", body |-> <<>>], [kind |-> "transport", body |-> <<>>]}

getEarthquakesCall(range, minMagnitude, maxResults, out) ==
  LET c0 == SeqStart(range, minMagnitude, maxResults)
      k == KeyOf(c0)
      c1 == SeqLookup(c0)
      c2 == IF c1.pc = "settled" THEN c1 ELSE SeqNet(c1, out)
  IN /\ last.n < MaxCalls
     /\ last' = [last EXCEPT !.n = last.n + 1, !.call = c2, !.before = Len(mem),
                              !.hadKey = MemIndex(k) # 0,
                              !.prev = last.call.maxResults]
     /\ mem' = IF c2.served = "memory" THEN mem
               ELSE IF c2.net = "ok"
               THEN EvictOldest(MemSet(mem, k, now, Normalized(out.body, minMagnitude)))
               ELSE MemAfterGetCache(k, getCache(k))
     /\ store' = IF c2.served = "memory" THEN store
                 ELSE IF c2.net = "ok"
                 THEN setCache(k, Normalized(out.body, minMagnitude), CACHE_TTL)
                 ELSE StoreAfterGetCache(k)
     /\ UNCHANGED <<now, storeWorks, fetchVars, clr, dbn, vis>>

\* time passes between calls
SeqTick(d, max) ==
  /\ now + d <= max
  /\ now' = now + d
  /\ UNCHANGED <<mem, store, storeWorks, fetchVars, aside>>

(* ----------------------- a full in-process map ------------------------- *)
\* the map after a long session: n keys (floors 1..n of the day feed), all stored at
\* time 2 but for the entries at p and q
FullMap(n, p, tp, q, tq) ==
  [j \in 1..n |->
     [key |-> CacheKey("24h", j),
      ts |-> IF j = p THEN tp ELSE IF j = q THEN tq ELSE 2,
      features |-> Normalized(<<RawC, RawB, RawA>>, j)]]

FullMaps ==
  {FullMap(n, p, tp, q, tq) :
     n \in {MEM_CAP - 1, MEM_CAP, MEM_CAP + 1}, p \in {1, 2}, q \in {MEM_CAP - 1},
     tp \in {0, 1, 2}, tq \in {0, 1}}

\* floors asked for: two not in the map (0 and 60), one in it (1)
EvictFloors == {0, 1, 60}

InitEvict ==
  /\ now = 2
  /\ mem \in FullMaps
  /\ store \in {[k \in {} |-> 0],
                [k \in {CacheKey("24h", 60)} |->
                   [ts |-> 2, ttl |-> CACHE_TTL, value |-> Normalized(<<RawC, RawB, RawA>>, 60)]]}
  /\ storeWorks = TRUE
  /\ calls = [i \in Fetches |-> IdleCall]
  /\ cur = 0 /\ deps = DefaultDeps /\ phase = "idle"
  /\ allData = <<>> /\ fromCache = FALSE /\ error = Null /\ loading = FALSE
  /\ last = NoLast /\ clr = NoClear /\ dbn = NoDebounce /\ vis = NoVisible

NextEvict ==
  \/ \E f \in EvictFloors, out \in NetOutcomes(Bodies) : getEarthquakesCall("24h", f, 500, out)
  \/ SeqTick(1, MaxEvictTime)

SpecEvict == InitEvict /\ [][NextEvict]_vars

\* the entries the map holds as a set
Entries(m) == {m[j] : j \in 1..Len(m)}

\* C11: when a write on the network path leaves the map with more than 50 entries,
\* exactly one entry is removed, and its stored timestamp is minimal among the
\* entries the map held after the write.
C11_EvictsOneOldest ==
  [][(last'.n # last.n /\ last'.call.net = "ok") =>
       LET k == KeyOf(last'.call)
           written == {e \in Entries(mem) : e.key # k}
                        \cup {[key |-> k, ts |-> now,
                               features |-> Normalized(last'.call.json, last'.call.minMagnitude)]}
       IN Cardinality(written) > MEM_CAP =>
            /\ Len(mem') = Cardinality(written) - 1
            /\ \E v \in written :
                 /\ Entries(mem') = written \ {v}
                 /\ \A w \in written : v.ts <= w.ts]_vars

\* a network write of a new key into a map of 50 or more: the map did not grow
C11_Witness ==
  /\ last.n > 0
  /\ last.call.net = "ok" /\ ~last.hadKey
  /\ last.before >= MEM_CAP
  /\ Len(mem) = last.before
  /\ MemIndex(KeyOf(last.call)) # 0

(* ------------------------------ clearAll ------------------------------- *)
MaxClearTime == 300000

\* what is in the store when the page loads
ClearStores ==
  { [k \in {} |-> 0],
    [k \in {CacheKey("24h", 0)} |->
       [ts |-> 0, ttl |-> CACHE_TTL, value |-> Normalized(<<RawC, RawB, RawA>>, 0)]],
    [k \in {CacheKey("24h", 0), CacheKey("7d", 0)} |->
       [ts |-> 0, ttl |-> CACHE_TTL, value |-> Normalized(<<RawC, RawB, RawA>>, 0)]] }

InitClear ==
  /\ now = 0
  /\ mem = <<>>
  /\ store \in ClearStores
  /\ storeWorks \in BOOLEAN
  /\ calls = [i \in Fetches |-> IdleCall]
  /\ cur = 0 /\ deps = DefaultDeps /\ phase = "idle"
  /\ allData = <<>> /\ fromCache \in BOOLEAN /\ error = Null /\ loading = FALSE
  /\ last = NoLast /\ clr = NoClear /\ dbn = NoDebounce /\ vis = NoVisible

\* clearAll up to "await localforage.keys()"
ClearStarted(by) ==
  [pc |-> "keys", by |-> by, keys |-> {}, pending |-> {}, removed |-> {},
   result |-> 0, n0 |-> last.n]

\* MapView's "Clear All Cache" button
ClearAllButton ==
  /\ clr.pc = "none"
  /\ clr' = ClearStarted("button")
  /\ fromCache' = FALSE
  /\ UNCHANGED <<now, mem, store, storeWorks, calls, cur, deps, phase, allData, error, loading,
                 last, dbn, vis>>

\* the Cache Inspector's Confirm button
InspectorConfirm ==
  /\ clr.pc = "none"
  /\ clr' = ClearStarted("inspector")
  /\ UNCHANGED <<now, mem, store, storeWorks, fetchVars, last, dbn, vis>>

\* onClearAll(null, removed) of MapView, which only the inspector calls
FromCacheAfterClear(c, flag) ==
  IF c.by = "inspector" /\ c.pc = "resolved" THEN FALSE ELSE flag

\* clearAll after localforage.keys(): it throws, there is nothing, or the removals start
AfterKeys(c) ==
  IF ~storeWorks THEN [c EXCEPT !.pc = "rejected"]
  ELSE IF DOMAIN store = {} THEN [c EXCEPT !.pc = "resolved", !.result = 0]
  ELSE [c EXCEPT !.pc = "removing", !.keys = DOMAIN store, !.pending = DOMAIN store]

KeysResolve ==
  /\ clr.pc = "keys"
  /\ clr' = AfterKeys(clr)
  /\ fromCache' = FromCacheAfterClear(clr', fromCache)
  /\ UNCHANGED <<now, mem, store, storeWorks, calls, cur, deps, phase, allData, error, loading,
                 last, dbn, vis>>

\* mutant: a failed removal is swallowed
AfterRemoveFailIgnored(c, k) ==
  [c EXCEPT !.pending = c.pending \ {k},
            !.pc = IF c.pc = "removing" /\ c.pending = {k} THEN "resolved" ELSE c.pc,
            !.result = IF c.pc = "removing" /\ c.pending = {k} THEN Cardinality(c.keys) ELSE c.result]

\* one removeItem of the Promise.all resolves; the last one resolves clearAll with keys.length
AfterRemoveDone(c, k) ==
  [c EXCEPT !.pending = c.pending \ {k},
            !.removed = c.removed \cup {k},
            !.pc = IF c.pc = "removing" /\ c.pending = {k} THEN "resolved" ELSE c.pc,
            !.result = IF c.pc = "removing" /\ c.pending = {k} THEN Cardinality(c.keys) ELSE c.result]

\* one removeItem rejects: Promise.all rejects at once, the other removals go on
AfterRemoveFail(c, k) ==
  [c EXCEPT !.pending = c.pending \ {k}, !.pc = "rejected"]

RemoveDone(k) ==
  /\ k \in clr.pending
  /\ clr' = AfterRemoveDone(clr, k)
  /\ store' = StoreRemove(store, k)
  /\ fromCache' = FromCacheAfterClear(clr', fromCache)
  /\ UNCHANGED <<now, mem, storeWorks, calls, cur, deps, phase, allData, error, loading,
                 last, dbn, vis>>

RemoveFail(k) ==
  /\ k \in clr.pending
  /\ clr' = AfterRemoveFail(clr, k)
  /\ fromCache' = FromCacheAfterClear(clr', fromCache)
  /\ UNCHANGED <<now, mem, store, storeWorks, calls, cur, deps, phase, allData, error, loading,
                 last, dbn, vis>>

\* getKeys(): the keys, [] when the store throws
getKeys == IF storeWorks THEN DOMAIN store ELSE {}

ClearKeys == {CacheKey("24h", 0), CacheKey("7d", 0)}

NextClear ==
  \/ \E r \in {"24h", "7d"}, out \in NetOutcomes(Bodies) : getEarthquakesCall(r, 0, 500, out)
  \/ ClearAllButton
  \/ InspectorConfirm
  \/ KeysResolve
  \/ \E k \in ClearKeys : RemoveDone(k)
  \/ \E k \in ClearKeys : RemoveFail(k)
  \/ SeqTick(CACHE_TTL, MaxClearTime)

SpecClear == InitClear /\ [][NextClear]_vars

\* C12: clearAll resolves to the number of keys that were in the store, all of them
\* removed (getKeys returns none of them while no getEarthquakes call has run since
\* clearAll began); a failing removal rejects clearAll for good, and the keys removed
\* before stay removed.
C12_ClearAllRemovesAndCounts ==
  [][/\ clr'.pc = "resolved" =>
          /\ clr'.result = Cardinality(clr'.keys)
          /\ clr'.removed = clr'.keys
          /\ last'.n = clr'.n0 => getKeys' \cap clr'.keys = {}
     /\ (clr.pc = "keys" /\ clr'.pc = "removing") => clr'.keys = DOMAIN store
     /\ (clr.pc \in {"removing", "rejected"}
           /\ \E k \in clr.pending \ clr'.pending : k \notin clr'.removed)
          => clr'.pc = "rejected"
     /\ clr.pc = "rejected" => clr'.pc = "rejected"
     /\ (clr'.pc \in {"removing", "rejected"} /\ last'.n = clr'.n0)
          => clr'.removed \cap DOMAIN store' = {}]_vars

\* two keys removed and counted
C12_Witness ==
  /\ clr.pc = "resolved" /\ clr.result = 2
  /\ clr.keys = ClearKeys
  /\ last.n = clr.n0
  /\ DOMAIN store = {}

\* one removal done, the other failed: rejected, one key gone and one left
C12_WitnessRejected ==
  /\ clr.pc = "rejected" /\ clr.pending = {}
  /\ Cardinality(clr.removed) = 1
  /\ Cardinality(DOMAIN store) = 1

\* C13: when clearAll has completed the in-process map holds no entry, and the
\* first getEarthquakes call after it is not served from the map.
C13_ClearAllEmptiesMemory ==
  [][/\ (clr.pc # "resolved" /\ clr'.pc = "resolved") => mem' = <<>>
     /\ (clr.pc = "resolved" /\ last'.n # last.n /\ last.n = clr.n0)
          => last'.call.served # "memory"]_vars

(* ------------------- the list a call builds and returns ---------------- *)
MaxLen == 3
MaxListCalls == 2

RawD == [id |-> "d", rec |-> "object", props |-> "object", mag |-> 15, time |-> 4,
         geo |-> "point", lon |-> 20, lat |-> -40]
RawE == [id |-> "e", rec |-> "object", props |-> "object", mag |-> 40, time |-> 5,
         geo |-> "point", lon |-> 140, lat |-> 36]

Range(f) == {f[x] : x \in DOMAIN f}

\* the sequences of at most n distinct members of pool
SeqsOf(pool, n) ==
  {q \in UNION {[1..m -> pool] : m \in 0..n} : Cardinality(Range(q)) = Len(q)}

\* what the feed holds: well-formed records, some magnitudes equal, one absent
ListBodies == SeqsOf({RawA, RawB, RawC, RawD, RawE}, MaxLen)

ListFloors == {0, 40}
ListCaps == {1, 500}

\* the store of an earlier page load holds the list of the same feed
FeedStores(feed) ==
  IF BatchThrows(feed) THEN { [k \in {} |-> 0] }
  ELSE { [k \in {} |-> 0],
         [k \in {CacheKey("24h", 0)} |->
            [ts |-> 0, ttl |-> CACHE_TTL, value |-> Normalized(feed, 0)]] }

InitFeed(bodies) ==
  /\ now = 0
  /\ mem = <<>>
  /\ last \in {[NoLast EXCEPT !.feed = b] : b \in bodies}
  /\ store \in FeedStores(last.feed)
  /\ storeWorks = TRUE
  /\ calls = [i \in Fetches |-> IdleCall]
  /\ cur = 0 /\ deps = DefaultDeps /\ phase = "idle"
  /\ allData = <<>> /\ fromCache = FALSE /\ error = Null /\ loading = FALSE
  /\ clr = NoClear /\ dbn = NoDebounce /\ vis = NoVisible

InitList == InitFeed(ListBodies)

NextList ==
  \E f \in ListFloors, K \in ListCaps, out \in NetOutcomes({last.feed}) :
    last.n < MaxListCalls /\ getEarthquakesCall("24h", f, K, out)

SpecList == InitList /\ [][NextList]_vars

\* where the record of this id stands in the feed
FeedPos(json, id) == CHOOSE j \in 1..Len(json) : json[j].id = id

\* C14: on a miss with a successful fetch the list built holds exactly the feed
\* records of magnitude (absent as 0) at least the floor, by magnitude descending,
\* equal magnitudes in feed order.
C14_FilteredSortedStable ==
  [][(last'.n # last.n /\ last'.call.net = "ok") =>
       LET json == last'.call.json
           floor == last'.call.minMagnitude
           L == mem'[MemIndexIn(mem', KeyOf(last'.call))].features
       IN /\ {L[i].id : i \in 1..Len(L)} =
               {json[j].id : j \in {x \in 1..Len(json) : Mag0(json[x].mag) >= floor}}
          /\ \A i \in 1..Len(L) : L[i].magnitude = json[FeedPos(json, L[i].id)].mag
          /\ \A i, j \in 1..Len(L) :
               i < j =>
                 \/ Mag0(L[i].magnitude) > Mag0(L[j].magnitude)
                 \/ /\ Mag0(L[i].magnitude) = Mag0(L[j].magnitude)
                    /\ FeedPos(json, L[i].id) < FeedPos(json, L[j].id)]_vars

\* magnitudes [6.2, 4.0, 1.5] with floor 4.0 give [6.2, 4.0]
C14_Witness ==
  /\ last.n > 0 /\ last.call.net = "ok"
  /\ last.call.json = <<RawA, RawB, RawD>>
  /\ last.call.minMagnitude = 40
  /\ MemIndex(KeyOf(last.call)) # 0
  /\ LET L == mem[MemIndex(KeyOf(last.call))].features
     IN Len(L) = 2 /\ L[1].magnitude = 62 /\ L[2].magnitude = 40

\* a list with two records of magnitude 4.0 in an order other than the feed's
C14_WitnessTie ==
  /\ last.n > 0 /\ last.call.net = "ok"
  /\ last.call.json = <<RawE, RawA, RawB>>
  /\ mem[MemIndex(KeyOf(last.call))].features =
       <<normalizeFeature(RawA), normalizeFeature(RawE), normalizeFeature(RawB)>>

\* C15: whatever tier serves it, a call with cap K returns the first K elements of
\* the full filtered, sorted list of the feed; both caches hold the whole list.
C15_TopKOfFullList ==
  /\ (last.n > 0 /\ last.call.result.ok) =>
       last.call.result.features =
         Slice(Normalized(last.feed, last.call.minMagnitude), last.call.maxResults)
  /\ \A j \in 1..Len(mem) : mem[j].features = Normalized(last.feed, mem[j].key[2])
  /\ \A k \in DOMAIN store : store[k].value = Normalized(last.feed, k[2])

\* a map entry written by a call with cap 1 serves a later call with cap 500 in full
C15_Witness ==
  /\ last.n = 2 /\ last.prev = 1
  /\ last.call.minMagnitude = 40
  /\ last.call.served = "memory" /\ last.call.maxResults = 500
  /\ Len(last.call.result.features) = 3

\* a call with cap 1 served by the durable store from a list of 3
C15_WitnessDurable ==
  /\ last.n > 0 /\ last.call.served = "durable" /\ last.call.maxResults = 1
  /\ Len(last.call.result.features) = 1
  /\ Len(store[KeyOf(last.call)].value) = 3

(* --------------------------- record shapes ----------------------------- *)
MaxShapes == 2

RawNullRec == [RawA EXCEPT !.id = "n", !.rec = "null"]
RawNoProps == [RawA EXCEPT !.id = "p", !.props = "missing"]
RawNullProps == [RawA EXCEPT !.id = "q", !.props = "null"]
RawNullGeo == [RawA EXCEPT !.id = "g", !.geo = "null"]
RawNullCoords == [RawA EXCEPT !.id = "h", !.geo = "nullcoords"]
RawEmptyGeo == [RawA EXCEPT !.id = "i", !.geo = "empty"]

ShapeBodies ==
  SeqsOf({RawA, RawC, RawNullRec, RawNoProps, RawNullProps, RawNullGeo, RawNullCoords,
          RawEmptyGeo}, MaxShapes)

InitShapes == InitFeed(ShapeBodies)

SpecShapes == InitShapes /\ [][NextList]_vars

\* C16: whatever the shapes of the feed's records, a call whose response arrived
\* does not fail: every record is normalised, with floor 0 none is lost.
C16_NormalizeNeverThrows ==
  [][(last'.n # last.n /\ last'.call.netIssued
        /\ last'.call.net \notin {"http", "transport"}) =>
       /\ last'.call.result.ok
       /\ last'.call.minMagnitude = 0 =>
            Len(mem'[MemIndexIn(mem', KeyOf(last'.call))].features) = Len(last.feed)]_vars

(* ------------------------------ debounce ------------------------------- *)
\* useDebounce on range, minMagnitude and viewportBounds, ViewportTracker's own
\* timer in front of the last, and the runs of the fetch effect they cause. The
\* effect's run is recorded by its dependencies (cur, deps, loading, error); what
\* the fetch then does is the subject of Spec.
MaxChanges == 3
MaxDbnTime == 650
RANGE_DELAY == 400
MAGNITUDE_DELAY == 250
BOUNDS_DELAY == 300
TRACKER_DELAY == 200
DbnStep == TRACKER_DELAY \div 4
NoTimer == -1

Inputs == {"range", "minMagnitude", "bounds"}

DebounceDelay(x) ==
  IF x = "range" THEN RANGE_DELAY
  ELSE IF x = "minMagnitude" THEN MAGNITUDE_DELAY
  ELSE BOUNDS_DELAY

WestBounds == [present |-> TRUE, north |-> 90, south |-> -90, east |-> 0, west |-> -180, zoom |-> 2]

\* a bounds value is an object: obj tells one object from another of equal content
NullBounds == [box |-> NoBounds, obj |-> 0]

\* after the first commit: the effect has run once with the initial values, the three
\* debounce timers are set, and ViewportTracker has reported the initial bounds
InitDebounce ==
  /\ now = 0
  /\ mem = <<>> /\ store = [k \in {} |-> 0] /\ storeWorks = TRUE
  /\ calls = [i \in Fetches |-> IdleCall]
  /\ cur = 1 /\ deps = DefaultDeps /\ phase = "idle"
  /\ allData = <<>> /\ fromCache = FALSE /\ error = Null /\ loading = TRUE
  /\ last = NoLast /\ clr = NoClear /\ vis = NoVisible
  /\ dbn = [on |-> TRUE,
            raw |-> [range |-> "24h", minMagnitude |-> 0, bounds |-> [box |-> EastBounds, obj |-> 1]],
            deb |-> [range |-> "24h", minMagnitude |-> 0, bounds |-> NullBounds],
            due |-> [range |-> RANGE_DELAY, minMagnitude |-> MAGNITUDE_DELAY,
                     bounds |-> BOUNDS_DELAY, tracker |-> NoTimer],
            since |-> [range |-> 0, minMagnitude |-> 0, bounds |-> 0],
            burst |-> [range |-> 0, minMagnitude |-> 0, bounds |-> 1],
            view |-> EastBounds, changes |-> 0,
            cause |-> "mount", causeBurst |-> 0]

\* mutant: one timer shared by the three inputs
DueAfterChangeShared(due, x) ==
  [y \in DOMAIN due |-> IF y = x \/ (y \in Inputs /\ due[y] # NoTimer)
                        THEN now + DebounceDelay(y) ELSE due[y]]

\* useDebounce's effect on a new value: clearTimeout, setTimeout(..., delay)
DueAfterChange(due, x) == [due EXCEPT ![x] = now + DebounceDelay(x)]

\* the input x takes the value v
Changed(d, x, v) ==
  [d EXCEPT !.raw[x] = v, !.due = DueAfterChange(d.due, x),
            !.since[x] = now, !.burst[x] = d.burst[x] + 1]

\* the parent passes a new range
SetRange(r) ==
  /\ dbn.changes < MaxChanges
  /\ r # dbn.raw.range
  /\ dbn' = [Changed(dbn, "range", r) EXCEPT !.changes = dbn.changes + 1]
  /\ UNCHANGED <<now, mem, store, storeWorks, fetchVars, last, clr, vis>>

\* the parent passes a new minimum magnitude
SetMinMagnitude(m) ==
  /\ dbn.changes < MaxChanges
  /\ m # dbn.raw.minMagnitude
  /\ dbn' = [Changed(dbn, "minMagnitude", m) EXCEPT !.changes = dbn.changes + 1]
  /\ UNCHANGED <<now, mem, store, storeWorks, fetchVars, last, clr, vis>>

\* moveend / zoomend: ViewportTracker restarts its 200 ms timer
MoveEnd(box) ==
  /\ dbn.changes < MaxChanges
  /\ dbn' = [dbn EXCEPT !.view = box, !.due.tracker = now + TRACKER_DELAY,
                        !.changes = dbn.changes + 1]
  /\ UNCHANGED <<now, mem, store, storeWorks, fetchVars, last, clr, vis>>

\* updateBounds: a new bounds object goes to setViewportBounds
TrackerFire ==
  /\ dbn.due.tracker # NoTimer /\ now >= dbn.due.tracker
  /\ dbn' = [Changed(dbn, "bounds", [box |-> dbn.view, obj |-> dbn.raw.bounds.obj + 1])
               EXCEPT !.due.tracker = NoTimer]
  /\ UNCHANGED <<now, mem, store, storeWorks, fetchVars, last, clr, vis>>

\* mutant: the debounced bounds do not reach the fetch
DepsOfNoBounds(deb) ==
  [deps EXCEPT !.range = deb.range, !.minMagnitude = deb.minMagnitude]

\* the dependencies of the fetch effect for the debounced values
DepsOf(deb) ==
  [deps EXCEPT !.range = deb.range, !.minMagnitude = deb.minMagnitude,
               !.bounds = deb.bounds.box]

\* the timer of x fires: setDebouncedValue(value); a new value re-runs the fetch effect
DebounceFire(x) ==
  /\ dbn.due[x] # NoTimer /\ now >= dbn.due[x]
  /\ LET fresh == dbn.raw[x] # dbn.deb[x]
     IN /\ dbn' = [dbn EXCEPT !.deb[x] = dbn.raw[x], !.due[x] = NoTimer, !.burst[x] = 0,
                              !.cause = IF fresh THEN x ELSE dbn.cause,
                              !.causeBurst = IF fresh THEN dbn.burst[x] ELSE dbn.causeBurst]
        /\ IF fresh
           THEN /\ cur' = cur + 1
                /\ deps' = DepsOf(dbn'.deb)
                /\ loading' = TRUE
                /\ error' = Null
           ELSE UNCHANGED <<cur, deps, loading, error>>
  /\ UNCHANGED <<now, mem, store, storeWorks, calls, phase, allData, fromCache, last, clr, vis>>

\* time passes, not past a timer that is due
DbnTick ==
  /\ now + DbnStep <= MaxDbnTime
  /\ \A y \in DOMAIN dbn.due : dbn.due[y] = NoTimer \/ dbn.due[y] > now
  /\ now' = now + DbnStep
  /\ UNCHANGED <<mem, store, storeWorks, fetchVars, aside>>

NextDebounce ==
  \/ \E r \in {"24h", "7d", "30d"} : SetRange(r)
  \/ \E m \in {0, 40} : SetMinMagnitude(m)
  \/ \E b \in {EastBounds, WestBounds} : MoveEnd(b)
  \/ TrackerFire
  \/ \E x \in Inputs : DebounceFire(x)
  \/ DbnTick

SpecDebounce == InitDebounce /\ [][NextDebounce]_vars

\* the statement about one step that both formulas below share: a debounced value
\* changes only to the input's present value, which has stood for the delay, and
\* that is one run of the fetch effect carrying it; nothing else runs the effect;
\* a change of an input fetches nothing at once and leaves the other timers alone
DebounceCore ==
  /\ \A x \in Inputs :
       /\ dbn'.deb[x] # dbn.deb[x] =>
            /\ dbn'.deb[x] = dbn.raw[x]
            /\ now - dbn.since[x] >= DebounceDelay(x)
            /\ cur' = cur + 1
            /\ deps' = DepsOf(dbn'.deb)
            /\ \A y \in Inputs \ {x} : dbn'.deb[y] = dbn.deb[y]
       /\ dbn'.raw[x] # dbn.raw[x] =>
            /\ cur' = cur
            /\ \A y \in Inputs \ {x} : dbn'.due[y] = dbn.due[y]
  /\ cur' # cur => \E x \in Inputs : dbn'.deb[x] # dbn.deb[x]

\* C17 as amended: each input is debounced by its own timer; a burst of changes
\* inside the delay yields at most one fetch, which carries the last value, and
\* exactly one when the last value differs from the value fetched before
C17_DebouncedIndependently ==
  [][/\ DebounceCore
     /\ \A x \in Inputs :
          (dbn.due[x] # NoTimer /\ dbn'.due[x] = NoTimer) =>
            IF dbn.raw[x] # dbn.deb[x] THEN cur' = cur + 1 ELSE cur' = cur]_vars

\* C17 as stated: ... and a burst of changes inside the delay yields one fetch
\* carrying the last value
C17_BurstYieldsOneFetch ==
  [][/\ DebounceCore
     /\ \A x \in Inputs :
          (dbn.due[x] # NoTimer /\ dbn'.due[x] = NoTimer /\ dbn.burst[x] >= 1)
            => (cur' = cur + 1 /\ dbn'.deb[x] = dbn.raw[x])]_vars

\* two changes of range inside 400 ms, then one fetch, for the second value
C17_Witness ==
  /\ dbn.on
  /\ dbn.cause = "range" /\ dbn.causeBurst = 2
  /\ deps.range = dbn.raw.range
  /\ dbn.due.range = NoTimer

(* ----------------------------- visibleData ----------------------------- *)
\* MapView's visibleData: viewport filter, priority sort, rendering limit. The
\* sort is Array.prototype.sort on the array it is given: allData itself unless
\* the filter made a copy. Its comparator is not a consistent one, so the order
\* it yields is the engine's: two engines' algorithms for short arrays are modelled,
\* insertion sort and binary insertion after an initial run.
MaxVis == 4
HALF_MAGNITUDE == 5
DEFAULT_ZOOM == 2

Abs(x) == IF x < 0 THEN 0 - x ELSE x

\* (a, b) => ... of the priority sort
PriorityCmp(a, b) ==
  IF Abs(Mag0(a.magnitude) - Mag0(b.magnitude)) > HALF_MAGNITUDE
  THEN Mag0(b.magnitude) - Mag0(a.magnitude)
  ELSE Mag0(b.time) - Mag0(a.time)

InsertAt(s, k, e) == SubSeq(s, 1, k) \o <<e>> \o SubSeq(s, k + 1, Len(s))

\* insertion sort: e moves left past every element that compares greater
LinearInsert(s, e) ==
  LET stop == {j \in 1..Len(s) : PriorityCmp(s[j], e) <= 0}
      k == IF stop = {} THEN 0 ELSE CHOOSE j \in stop : \A i \in stop : i <= j
  IN InsertAt(s, k, e)

RECURSIVE LinearSort(_)
LinearSort(s) ==
  IF Len(s) <= 1 THEN s
  ELSE LinearInsert(LinearSort(SubSeq(s, 1, Len(s) - 1)), s[Len(s)])

\* binary search for the place of e in s[left+1 .. right]
RECURSIVE BinaryPlace(_, _, _, _)
BinaryPlace(s, e, left, right) ==
  IF left >= right THEN left
  ELSE LET mid == left + ((right - left) \div 2)
       IN IF PriorityCmp(e, s[mid + 1]) < 0
          THEN BinaryPlace(s, e, left, mid)
          ELSE BinaryPlace(s, e, mid + 1, right)

BinaryInsert(s, e) == InsertAt(s, BinaryPlace(s, e, 0, Len(s)), e)

\* the length of the initial run: descending while each element compares less than
\* its predecessor, ascending while none does
RECURSIVE RunLength(_, _, _)
RunLength(s, descending, idx) ==
  IF idx > Len(s) THEN idx - 1
  ELSE LET order == PriorityCmp(s[idx], s[idx - 1])
       IN IF (descending /\ order >= 0) \/ (~descending /\ order < 0)
          THEN idx - 1
          ELSE RunLength(s, descending, idx + 1)

Reverse(s) == [i \in 1..Len(s) |-> s[Len(s) + 1 - i]]

RECURSIVE BinaryInsertFrom(_, _, _)
BinaryInsertFrom(sorted, s, idx) ==
  IF idx > Len(s) THEN sorted
  ELSE BinaryInsertFrom(BinaryInsert(sorted, s[idx]), s, idx + 1)

RunSort(s) ==
  IF Len(s) <= 1 THEN s
  ELSE LET descending == PriorityCmp(s[2], s[1]) < 0
           n == RunLength(s, descending, 3)
           run == IF descending THEN Reverse(SubSeq(s, 1, n)) ELSE SubSeq(s, 1, n)
       IN BinaryInsertFrom(run, s, n + 1)

\* viewportFiltered.sort(...) in the engine at hand
PrioritySort(s, engine) == IF engine = "insertion" THEN LinearSort(s) ELSE RunSort(s)

\* mutant: a filter that leaves out the events on the edge
isInViewportStrict(eq, bounds) ==
  IF ~bounds.present THEN TRUE
  ELSE /\ eq.lat > bounds.south /\ eq.lat < bounds.north
       /\ eq.lon > bounds.west /\ eq.lon < bounds.east

isInViewport(eq, bounds) ==
  IF ~bounds.present THEN TRUE
  ELSE /\ eq.lat >= bounds.south /\ eq.lat <= bounds.north
       /\ eq.lon >= bounds.west /\ eq.lon <= bounds.east

\* mutant: tiers that start above their zoom level
getSmartRenderingLimitAbove(zoom, totalCount, performance) ==
  IF performance = "high"
  THEN IF zoom > 10 THEN Min(2000, totalCount)
       ELSE IF zoom > 8 THEN Min(1500, totalCount)
       ELSE IF zoom > 6 THEN Min(1000, totalCount)
       ELSE IF zoom > 4 THEN Min(500, totalCount)
       ELSE Min(200, totalCount)
  ELSE IF performance = "balanced"
  THEN IF zoom > 8 THEN Min(1000, totalCount)
       ELSE IF zoom > 6 THEN Min(500, totalCount)
       ELSE IF zoom > 4 THEN Min(250, totalCount)
       ELSE Min(100, totalCount)
  ELSE IF zoom > 8 THEN Min(500, totalCount)
       ELSE IF zoom > 6 THEN Min(250, totalCount)
       ELSE IF zoom > 4 THEN Min(150, totalCount)
       ELSE Min(75, totalCount)

\* mutant: the balanced tiers given to the high mode as well, but for the closest zoom
getSmartRenderingLimitDip(zoom, totalCount, performance) ==
  IF performance = "high" /\ zoom >= 10 THEN Min(200, totalCount)
  ELSE IF performance = "performance"
  THEN IF zoom >= 8 THEN Min(500, totalCount)
       ELSE IF zoom >= 6 THEN Min(250, totalCount)
       ELSE IF zoom >= 4 THEN Min(150, totalCount)
       ELSE Min(75, totalCount)
  ELSE IF zoom >= 8 THEN Min(1000, totalCount)
       ELSE IF zoom >= 6 THEN Min(500, totalCount)
       ELSE IF zoom >= 4 THEN Min(250, totalCount)
       ELSE Min(100, totalCount)

getSmartRenderingLimit(zoom, totalCount, performance) ==
  IF performance = "high"
  THEN IF zoom >= 10 THEN Min(2000, totalCount)
       ELSE IF zoom >= 8 THEN Min(1500, totalCount)
       ELSE IF zoom >= 6 THEN Min(1000, totalCount)
       ELSE IF zoom >= 4 THEN Min(500, totalCount)
       ELSE Min(200, totalCount)
  ELSE IF performance = "balanced"
  THEN IF zoom >= 8 THEN Min(1000, totalCount)
       ELSE IF zoom >= 6 THEN Min(500, totalCount)
       ELSE IF zoom >= 4 THEN Min(250, totalCount)
       ELSE Min(100, totalCount)
  ELSE IF zoom >= 8 THEN Min(500, totalCount)
       ELSE IF zoom >= 6 THEN Min(250, totalCount)
       ELSE IF zoom >= 4 THEN Min(150, totalCount)
       ELSE Min(75, totalCount)

\* viewportBounds?.zoom || 2
ZoomOf(bounds) == IF bounds.present /\ bounds.zoom # 0 THEN bounds.zoom ELSE DEFAULT_ZOOM

\* mutant: the ranked list goes on whole
LimitedFull(sorted, bounds, mode) == sorted

\* sorted.slice(0, renderLimit)
Limited(sorted, bounds, mode) ==
  Slice(sorted, getSmartRenderingLimit(ZoomOf(bounds), Len(sorted), mode))

\* the body of the useMemo: what it returns and what it leaves in allData
visibleData(v, data) ==
  IF data = <<>> THEN [v EXCEPT !.ranked = <<>>, !.out = <<>>, !.data = data]
  ELSE LET copied == ~v.filtering /\ v.bounds.present
           viewportFiltered ==
             IF copied THEN SelectSeq(data, LAMBDA eq : isInViewport(eq, v.bounds)) ELSE data
           sorted == PrioritySort(viewportFiltered, v.engine)
           limited == Limited(sorted, v.bounds, v.mode)
       IN [v EXCEPT !.ranked = sorted, !.out = limited,
                    !.data = IF copied THEN data ELSE sorted,
                    !.stats = [visible |-> Len(limited), total |-> Len(data),
                               culled |-> Len(data) - Len(limited),
                               viewport |-> Len(viewportFiltered)]]

\* events for the map: three in the eastern hemisphere 0.4 apart in magnitude,
\* the smaller the later (one of them on the edge, lon = 0), two in the western
RawV(m, t, lon) ==
  [id |-> <<m, t>>, rec |-> "object", props |-> "object", mag |-> m, time |-> t,
   geo |-> "point", lat |-> 10, lon |-> lon]

VisPool ==
  {RawV(60, 1, 100), RawV(56, 2, 100), RawV(52, 3, 0), RawV(62, 0, -120), RawV(58, 1, -120)}

\* the feeds: up to MaxVis distinct events, in the order getEarthquakes returns
\* them (magnitude descending)
VisFeeds ==
  {f \in SeqsOf(VisPool, MaxVis) :
     /\ \A i \in 1..(Len(f) - 1) : f[i].mag >= f[i + 1].mag
     /\ \A i, j \in 1..Len(f) : i # j => f[i] # f[j]}

VisBounds == {EastBounds, WestBounds}
Modes == {"performance", "balanced", "high"}
NoStats == [visible |-> 0, total |-> 0, culled |-> 0, viewport |-> 0]

InitVisible ==
  /\ now = 0
  /\ mem = <<>> /\ store = [k \in {} |-> 0] /\ storeWorks = TRUE
  /\ calls = [i \in Fetches |-> IdleCall]
  /\ cur = 1 /\ deps = DefaultDeps /\ phase = "idle"
  /\ allData = <<>> /\ fromCache = FALSE /\ error = Null /\ loading = TRUE
  /\ last = NoLast /\ clr = NoClear /\ dbn = NoDebounce
  /\ vis \in {[on |-> TRUE, feed |-> f, engine |-> e,
               bounds |-> NoBounds, mode |-> "balanced", filtering |-> TRUE,
               got |-> [some |-> FALSE, filtering |-> TRUE, bounds |-> NoBounds],
               first |-> [bounds |-> NoBounds, mode |-> "balanced", out |-> <<>>],
               ranked |-> <<>>, out |-> <<>>, stats |-> NoStats, data |-> <<>>] :
              f \in VisFeeds, e \in {"insertion", "run"}}

\* the render after a change: the useMemo runs on the array v.data
Rendered(v, data) == [visibleData(v, data) EXCEPT !.data = <<>>]
DataAfterRender(v, data) == visibleData(v, data).data

\* a fetch made with debounced bounds b answers: the .then callback, then the render
ReceiveData(b) ==
  LET c == [IdleCall EXCEPT
              !.wrapped = vis.filtering, !.bounds = IF vis.filtering THEN b ELSE NoBounds,
              !.wrapMax = MaxResultsOf(vis.mode), !.mounted = TRUE,
              !.result = Result(Normalized(vis.feed, 0), FALSE,
                               IF vis.filtering THEN MaxResultsOf(vis.mode) * 2
                               ELSE MaxResultsOf(vis.mode))]
      r == WithBounds(c)
      v == [vis EXCEPT !.got = [some |-> TRUE, filtering |-> vis.filtering, bounds |-> c.bounds]]
      w == Rendered(v, DataAfter(r, allData))
  IN /\ vis' = [w EXCEPT !.first = [bounds |-> v.bounds, mode |-> v.mode, out |-> w.out]]
     /\ allData' = DataAfterRender(v, DataAfter(r, allData))
     /\ fromCache' = FromCacheAfter(r, fromCache)
     /\ error' = ErrorAfter(r, error)
     /\ loading' = FALSE
     /\ UNCHANGED <<now, mem, store, storeWorks, calls, cur, deps, phase, last, clr, dbn>>

\* ViewportTracker reports bounds: always a new object, so the useMemo runs
SetViewportBounds(b) ==
  /\ vis' = Rendered([vis EXCEPT !.bounds = b], allData)
  /\ allData' = DataAfterRender([vis EXCEPT !.bounds = b], allData)
  /\ UNCHANGED <<now, mem, store, storeWorks, calls, cur, deps, phase, fromCache, error, loading,
                 last, clr, dbn>>

SetPerformanceMode(m) ==
  /\ m # vis.mode
  /\ vis' = Rendered([vis EXCEPT !.mode = m], allData)
  /\ allData' = DataAfterRender([vis EXCEPT !.mode = m], allData)
  /\ UNCHANGED <<now, mem, store, storeWorks, calls, cur, deps, phase, fromCache, error, loading,
                 last, clr, dbn>>

ToggleGeographicFiltering ==
  /\ vis' = Rendered([vis EXCEPT !.filtering = ~vis.filtering], allData)
  /\ allData' = DataAfterRender([vis EXCEPT !.filtering = ~vis.filtering], allData)
  /\ UNCHANGED <<now, mem, store, storeWorks, calls, cur, deps, phase, fromCache, error, loading,
                 last, clr, dbn>>

NextVisible ==
  \/ \E b \in VisBounds \cup {NoBounds} : ReceiveData(b)
  \/ \E b \in VisBounds : SetViewportBounds(b)
  \/ \E m \in Modes : SetPerformanceMode(m)
  \/ ToggleGeographicFiltering

SpecVisible == InitVisible /\ [][NextVisible]_vars

\* the claim's test, spelled out
Within(e, b) == b.south <= e.lat /\ e.lat <= b.north /\ b.west <= e.lon /\ e.lon <= b.east

\* C18: the geographic filter, in the fetch and in visibleData, keeps exactly the
\* events with south <= lat <= north and west <= lon <= east, of any magnitude,
\* and keeps every event when there are no bounds.
C18_GeographicFilter ==
  /\ vis.got.some =>
       Entries(allData) =
         {e \in Entries(Normalized(vis.feed, 0)) :
            (vis.got.filtering /\ vis.got.bounds.present) => Within(e, vis.got.bounds)}
  /\ Entries(vis.ranked) =
       {e \in Entries(allData) : (~vis.filtering /\ vis.bounds.present) => Within(e, vis.bounds)}

\* bounds covering the eastern hemisphere: the event at lon = -120 is left out,
\* the event on the edge (lon = 0) is kept
C18_Witness ==
  /\ vis.on /\ vis.got.some /\ vis.got.filtering /\ vis.got.bounds = EastBounds
  /\ \E i \in 1..Len(vis.feed) : vis.feed[i].lon = -120
  /\ \E e \in Entries(allData) : e.lon = 0
  /\ \A e \in Entries(allData) : e.lon # -120

\* the same in visibleData's own filter
C18_WitnessViewport ==
  /\ vis.on /\ ~vis.filtering /\ vis.bounds = EastBounds
  /\ \E e \in Entries(allData) : e.lon = -120
  /\ \E e \in Entries(vis.ranked) : e.lon = 0
  /\ \A e \in Entries(vis.ranked) : e.lon # -120

\* C19: in the ranked list, of two events more than 0.5 apart in magnitude the
\* larger comes first, and of two events at most 0.5 apart the later comes first.
C19_RankedByPriority ==
  \A i, j \in 1..Len(vis.ranked) :
    i < j =>
      LET a == vis.ranked[i]
          b == vis.ranked[j]
      IN IF Abs(Mag0(a.magnitude) - Mag0(b.magnitude)) > HALF_MAGNITUDE
         THEN Mag0(a.magnitude) > Mag0(b.magnitude)
         ELSE Mag0(a.time) >= Mag0(b.time)

\* C20: a computation with the inputs of an earlier one (same list, bounds, mode)
\* gives the output of the earlier one: here the earlier one is the first made
\* on the list, when it arrived.
C20_SameInputsSameOutput ==
  (/\ vis.on /\ vis.got.some
   /\ vis.bounds = vis.first.bounds /\ vis.mode = vis.first.mode
   /\ vis.filtering = vis.got.filtering)
  => vis.out = vis.first.out

(* ------------------------- the rendering limit ------------------------- *)
\* The last lines of visibleData on a list already ranked, each event standing
\* for its place in the ranking: long lists, all zoom levels, all modes.
MaxTotal == 2001
MaxZoom == 12

Zooms == 0..MaxZoom
Totals ==
  {0, 1, 75, 76, 100, 101, 150, 151, 200, 201, 250, 251, 500, 501, 1000, 1001,
   1500, 1501, 2000, MaxTotal}
WorldAt(z) == [present |-> TRUE, north |-> 90, south |-> -90, east |-> 180, west |-> -180, zoom |-> z]
RankedList(n) == [i \in 1..n |-> i]

InitLimit ==
  /\ now = 0
  /\ mem = <<>> /\ store = [k \in {} |-> 0] /\ storeWorks = TRUE
  /\ calls = [i \in Fetches |-> IdleCall]
  /\ cur = 1 /\ deps = DefaultDeps /\ phase = "idle"
  /\ allData = <<>> /\ fromCache = FALSE /\ error = Null /\ loading = TRUE
  /\ last = NoLast /\ clr = NoClear /\ dbn = NoDebounce
  /\ vis = [on |-> TRUE, bounds |-> NoBounds, mode |-> "balanced", ranked |-> <<>>, out |-> <<>>]

LimitFrame ==
  UNCHANGED <<now, mem, store, storeWorks, calls, cur, deps, phase, allData, fromCache, error,
              loading, last, clr, dbn>>

\* a list of n events has been ranked
LimitRanked(n) ==
  /\ vis' = [vis EXCEPT !.ranked = RankedList(n),
                        !.out = Limited(RankedList(n), vis.bounds, vis.mode)]
  /\ LimitFrame

\* the map reports zoom z
LimitZoom(z) ==
  /\ vis' = [vis EXCEPT !.bounds = WorldAt(z),
                        !.out = Limited(vis.ranked, WorldAt(z), vis.mode)]
  /\ LimitFrame

LimitMode(m) ==
  /\ m # vis.mode
  /\ vis' = [vis EXCEPT !.mode = m, !.out = Limited(vis.ranked, vis.bounds, m)]
  /\ LimitFrame

NextLimit ==
  \/ \E n \in Totals : LimitRanked(n)
  \/ \E z \in Zooms : LimitZoom(z)
  \/ \E m \in Modes : LimitMode(m)

SpecLimit == InitLimit /\ [][NextLimit]_vars

\* the zoom the map is at (2 before the first report)
ZoomNow == IF vis.bounds.present THEN vis.bounds.zoom ELSE DEFAULT_ZOOM

\* C21: in balanced mode the limit is 1000 for zoom >= 8, 500 for 6 <= zoom < 8,
\* 250 for 4 <= zoom < 6 and 100 below, and the output is the first
\* min(limit, number of ranked events) elements of the ranking.
C21_BalancedTiers ==
  (vis.on /\ vis.mode = "balanced") =>
    LET limit == IF ZoomNow >= 8 THEN 1000
                 ELSE IF ZoomNow >= 6 THEN 500
                 ELSE IF ZoomNow >= 4 THEN 250
                 ELSE 100
    IN /\ Len(vis.out) = Min(limit, Len(vis.ranked))
       /\ vis.out = SubSeq(vis.ranked, 1, Len(vis.out))

\* each tier cuts a list one longer than its limit
C21_Witness ==
  /\ vis.on /\ vis.mode = "balanced" /\ vis.bounds.present /\ vis.bounds.zoom = 8
  /\ Len(vis.ranked) = 1001 /\ Len(vis.out) = 1000

C21_WitnessCoarse ==
  /\ vis.on /\ vis.mode = "balanced" /\ vis.bounds.present /\ vis.bounds.zoom = 3
  /\ Len(vis.ranked) = 101 /\ Len(vis.out) = 100

ModeRank(m) == IF m = "performance" THEN 0 ELSE IF m = "balanced" THEN 1 ELSE 2

\* C22: for the same list, the limit does not shrink when the zoom grows (any
\* mode) nor when the mode goes from performance to balanced to high (any zoom).
C22_LimitMonotone ==
  [][/\ (/\ vis'.mode = vis.mode /\ vis'.ranked = vis.ranked
         /\ ZoomOf(vis.bounds) <= ZoomOf(vis'.bounds))
        => Len(vis.out) <= Len(vis'.out)
     /\ (/\ vis'.bounds = vis.bounds /\ vis'.ranked = vis.ranked
         /\ ModeRank(vis.mode) <= ModeRank(vis'.mode))
        => Len(vis.out) <= Len(vis'.out)]_vars

\* the limit grows with the zoom and with the mode on a list long enough to show it
C22_Witness ==
  /\ vis.on /\ vis.mode = "high" /\ vis.bounds.present /\ vis.bounds.zoom = 10
  /\ Len(vis.ranked) = MaxTotal /\ Len(vis.out) = 2000

(* ------------------------------ clustering ----------------------------- *)
\* createClusters on short lists. Coordinates are in units of 0.0001 degree and
\* magnitudes in tenths, so that every comparison of the code is exact.
MaxPoints == 3
METERS_PER_DEGREE == 111000
UNITS_PER_DEGREE == 10000

\* mutant: tiers that start at their zoom level
clusterDistanceFrom(zoom) ==
  IF zoom >= 10 THEN 40 ELSE IF zoom >= 7 THEN 60 ELSE IF zoom >= 4 THEN 80 ELSE 120

clusterDistance(zoom) ==
  IF zoom > 10 THEN 40 ELSE IF zoom > 7 THEN 60 ELSE IF zoom > 4 THEN 80 ELSE 120

\* Math.sqrt(dlat^2 + dlon^2) * 111000 < clusterDistance, squared on both sides
Near(p, q, zoom) ==
  LET dlat == p.lat - q.lat
      dlon == p.lon - q.lon
      \* 111000 / 10000 = 11.1 per unit; times 10 to stay whole
      perUnit10 == (10 * METERS_PER_DEGREE) \div UNITS_PER_DEGREE
  IN (dlat * dlat + dlon * dlon) * perUnit10 * perUnit10
       < (10 * clusterDistance(zoom)) * (10 * clusterDistance(zoom))

\* mutant: the inner loop without its processed.has(j) test
NearbyAny(points, i, processed, zoom) ==
  {j \in 1..Len(points) : j # i /\ Near(points[i], points[j], zoom)}

\* the indices the inner forEach adds to the cluster seeded by i
Nearby(points, i, processed, zoom) ==
  {j \in 1..Len(points) : j # i /\ j \notin processed /\ Near(points[i], points[j], zoom)}

RECURSIVE InOrder(_)
InOrder(S) ==
  IF S = {} THEN <<>>
  ELSE LET least == CHOOSE j \in S : \A k \in S : j <= k
       IN <<least>> \o InOrder(S \ {least})

Max(a, b) == IF a >= b THEN a ELSE b

\* Math.max(1, p.magnitude || 1), in tenths
Weight(p) == IF Mag0(p.magnitude) = 0 THEN 10 ELSE Max(10, p.magnitude)

RECURSIVE SumFrom(_, _)
SumFrom(ns, i) == IF i > Len(ns) THEN 0 ELSE ns[i] + SumFrom(ns, i + 1)

\* mutant: the seed's magnitude, whatever joins the cluster
MaxMagOfSeed(ps, i, acc) == acc

RECURSIVE MaxMagOver(_, _, _)
MaxMagOver(ps, i, acc) ==
  IF i > Len(ps) THEN acc ELSE MaxMagOver(ps, i + 1, Max(acc, Mag0(ps[i].magnitude)))

\* the cluster seeded by points[i]; lat and lng are the fractions lat/den, lng/den
ClusterOf(points, i, processed, zoom) ==
  LET members == <<i>> \o InOrder(Nearby(points, i, processed, zoom))
      ps == [k \in 1..Len(members) |-> points[members[k]]]
      n == Len(ps)
  IN [lat |-> IF Len(ps) > 1 THEN SumFrom([k \in 1..n |-> ps[k].lat * Weight(ps[k])], 1) ELSE points[i].lat,
      lng |-> IF Len(ps) > 1 THEN SumFrom([k \in 1..n |-> ps[k].lon * Weight(ps[k])], 1) ELSE points[i].lon,
      den |-> IF Len(ps) > 1 THEN SumFrom([k \in 1..n |-> Weight(ps[k])], 1) ELSE 1,
      points |-> ps,
      maxMagnitude |-> MaxMagOver(ps, 2, Mag0(points[i].magnitude))]

\* mutant: the outer loop marks only its seed, not the members it has pushed
RECURSIVE ClustersFromSeedOnly(_, _, _, _, _)
ClustersFromSeedOnly(points, zoom, i, processed, clusters) ==
  IF i > Len(points) THEN clusters
  ELSE IF i \in processed THEN ClustersFromSeedOnly(points, zoom, i + 1, processed, clusters)
  ELSE ClustersFromSeedOnly(points, zoom, i + 1, processed \cup {i},
                            Append(clusters, ClusterOf(points, i, processed, zoom)))

RECURSIVE ClustersFrom(_, _, _, _, _)
ClustersFrom(points, zoom, i, processed, clusters) ==
  IF i > Len(points) THEN clusters
  ELSE IF i \in processed THEN ClustersFrom(points, zoom, i + 1, processed, clusters)
  ELSE ClustersFrom(points, zoom, i + 1,
                    processed \cup Nearby(points, i, processed, zoom) \cup {i},
                    Append(clusters, ClusterOf(points, i, processed, zoom)))

createClusters(points, zoom) == ClustersFrom(points, zoom, 1, {}, <<>>)

\* events around (10.0000, 100.0000): offsets in units of 0.0001 degree
Quake(id, m, dlat, dlon) ==
  [id |-> id, magnitude |-> m, time |-> 1, lat |-> 100000 + dlat, lon |-> 1000000 + dlon]

ClusterPool ==
  {Quake("a", 45, 0, 0), Quake("b", 62, 5, 5), Quake("c", Absent, 3, 0),
   Quake("d", 0, 9, 9), Quake("e", 30, 0, 10), Quake("f", 51, 100, 0)}

PointLists == SeqsOf(ClusterPool, MaxPoints)

InitCluster ==
  /\ now = 0
  /\ mem = <<>> /\ store = [k \in {} |-> 0] /\ storeWorks = TRUE
  /\ calls = [i \in Fetches |-> IdleCall]
  /\ cur = 1 /\ deps = DefaultDeps /\ phase = "idle"
  /\ allData = <<>> /\ fromCache = FALSE /\ error = Null /\ loading = TRUE
  /\ last = NoLast /\ clr = NoClear /\ dbn = NoDebounce
  /\ vis \in {[on |-> TRUE, earthquakes |-> points, zoom |-> z, clusters |-> <<>>,
               done |-> FALSE] : points \in PointLists, z \in Zooms}

\* LightweightCluster is mounted with the earthquakes prop while the map is at
\* vis.zoom: its effect runs
ClusterEffect ==
  /\ ~vis.done
  /\ vis' = [vis EXCEPT !.done = TRUE,
                        !.clusters = IF vis.earthquakes = <<>> THEN <<>>
                                     ELSE createClusters(vis.earthquakes, vis.zoom)]
  /\ LimitFrame

NextCluster == ClusterEffect

SpecCluster == InitCluster /\ [][NextCluster]_vars

\* how often e occurs in the list ps
Count(ps, e) == Cardinality({i \in 1..Len(ps) : ps[i] = e})

\* C23: the clusters partition the input: every cluster has a member, every event
\* occurs in the clusters as often as in the input (once, for distinct events), and
\* the clusters are those createClusters gives for this input and zoom.
C23_ClustersPartition ==
  vis.done =>
    /\ \A c \in 1..Len(vis.clusters) : Len(vis.clusters[c].points) >= 1
    /\ \A e \in ClusterPool :
         SumFrom([c \in 1..Len(vis.clusters) |-> Count(vis.clusters[c].points, e)], 1)
           = Count(vis.earthquakes, e)
    /\ vis.clusters = createClusters(vis.earthquakes, vis.zoom)

\* a chain a - c - b in which a and b are apart: c joins a, b is left alone
C23_Witness ==
  /\ vis.done /\ Len(vis.earthquakes) = 3 /\ vis.zoom = 8
  /\ vis.earthquakes[1].id = "a" /\ vis.earthquakes[2].id = "b" /\ vis.earthquakes[3].id = "c"
  /\ Len(vis.clusters) = 2 /\ Len(vis.clusters[1].points) = 2

\* C24: the threshold is 40 for zoom > 10, 60 for zoom > 7, 80 for zoom > 4 and
\* 120 otherwise on the degree distance times 111000: two events are in one
\* cluster of two exactly when they are closer than that, so two events 0.0005
\* degrees apart in both directions are one cluster at zoom 2 and two at zoom 12.
C24_DistanceThreshold ==
  (vis.done /\ Len(vis.earthquakes) = 2) =>
    LET p == vis.earthquakes[1]
        q == vis.earthquakes[2]
        threshold == IF vis.zoom > 10 THEN 40 ELSE IF vis.zoom > 7 THEN 60
                     ELSE IF vis.zoom > 4 THEN 80 ELSE 120
        \* (distance in degrees * 111000)^2 < threshold^2, in units of 0.0001 degree
        close == ((p.lat - q.lat) * (p.lat - q.lat) + (p.lon - q.lon) * (p.lon - q.lon)) * 12321
                   < 100 * threshold * threshold
    IN /\ close => (Len(vis.clusters) = 1 /\ Len(vis.clusters[1].points) = 2)
       /\ ~close => (/\ Len(vis.clusters) = 2
                     /\ Len(vis.clusters[1].points) = 1 /\ Len(vis.clusters[2].points) = 1)
       /\ (p.lat - q.lat = 5 /\ p.lon - q.lon = 5) =>
            (/\ vis.zoom = 2 => Len(vis.clusters) = 1
             /\ vis.zoom = 12 => Len(vis.clusters) = 2)

C24_Witness ==
  /\ vis.done /\ vis.zoom = 2 /\ Len(vis.earthquakes) = 2
  /\ vis.earthquakes[1].id = "b" /\ vis.earthquakes[2].id = "a"
  /\ Len(vis.clusters) = 1 /\ Len(vis.clusters[1].points) = 2

C24_WitnessApart ==
  /\ vis.done /\ vis.zoom = 12 /\ Len(vis.earthquakes) = 2
  /\ vis.earthquakes[1].id = "b" /\ vis.earthquakes[2].id = "a"
  /\ Len(vis.clusters) = 2

\* C25: a cluster's maxMagnitude is the largest magnitude of its members (absent
\* as 0), and a cluster of one member is centred on that member.
C25_MaxMagnitudeAndCenter ==
  vis.done =>
    \A c \in 1..Len(vis.clusters) :
      LET cl == vis.clusters[c]
      IN /\ \E k \in 1..Len(cl.points) : cl.maxMagnitude = Mag0(cl.points[k].magnitude)
         /\ \A k \in 1..Len(cl.points) : cl.maxMagnitude >= Mag0(cl.points[k].magnitude)
         /\ Len(cl.points) = 1 =>
              (cl.den = 1 /\ cl.lat = cl.points[1].lat /\ cl.lng = cl.points[1].lon)

\* a cluster whose largest member is not its seed, next to a cluster of one
C25_Witness ==
  /\ vis.done
  /\ \E c \in 1..Len(vis.clusters) :
       /\ Len(vis.clusters[c].points) >= 2
       /\ vis.clusters[c].maxMagnitude > Mag0(vis.clusters[c].points[1].magnitude)
  /\ \E c \in 1..Len(vis.clusters) : Len(vis.clusters[c].points) = 1

(* --------------------------- the age of the data ----------------------- *)
\* Calls for one key over ten minutes and more, with page reloads in between.
\* The feed fetched at time t holds one event whose time is t, so that a list
\* tells when it left the network.
MaxAgeTime == 900000

FeedAt(t) == <<[RawA EXCEPT !.time = t]>>
AgeSteps == {CACHE_TTL \div 2, CACHE_TTL - 1, CACHE_TTL}

InitAge ==
  /\ now = 0
  /\ mem = <<>> /\ store = [k \in {} |-> 0] /\ storeWorks = TRUE
  /\ calls = [i \in Fetches |-> IdleCall]
  /\ cur = 0 /\ deps = DefaultDeps /\ phase = "idle"
  /\ allData = <<>> /\ fromCache = FALSE /\ error = Null /\ loading = FALSE
  /\ last = NoLast /\ clr = NoClear /\ dbn = NoDebounce /\ vis = NoVisible

\* the page is loaded again: the module starts with an empty map, the durable
\* store stays
Reload ==
  /\ mem # <<>>
  /\ mem' = <<>>
  /\ UNCHANGED <<now, store, storeWorks, fetchVars, aside>>

NextAge ==
  \/ \E out \in NetOutcomes({FeedAt(now)}) : getEarthquakesCall("24h", 0, 500, out)
  \/ \E d \in AgeSteps : SeqTick(d, MaxAgeTime)
  \/ Reload

SpecAge == InitAge /\ [][NextAge]_vars

\* C26: a call that returns a cache hit returns data that left the network at
\* most CACHE_TTL ago.
C26_NoHitPastTtl ==
  [][(/\ last'.n = last.n + 1
      /\ last'.call.result.ok /\ last'.call.result.fromCache
      /\ last'.call.result.features # <<>>)
     => now <= last'.call.result.features[1].time + CACHE_TTL]_vars

(* --------------------- writes after the caller's abort ----------------- *)
\* C27: a call whose signal has aborted takes no later step that changes the
\* in-process map or the durable store.
C27_NoWriteAfterAbort ==
  [][\A i \in Fetches :
       (calls[i].sigAborted /\ calls'[i] # calls[i]) => (mem' = mem /\ store' = store)]_vars

(* ------------------------ the size of the map -------------------------- *)
\* C28: a call that starts with at most MEM_CAP entries in the in-process map
\* ends with at most MEM_CAP entries in it.
C28_MapBounded ==
  [][(last'.n = last.n + 1 /\ Len(mem) <= MEM_CAP) => Len(mem') <= MEM_CAP]_vars

(* ------------------ geographic filter and truncation ------------------- *)
\* The fetch of MapView on a feed longer than twice the result limit, served by the
\* in-process map (an earlier fetch has stored the whole list): the events are in
\* magnitude order, those at the places given by the layout lie in the eastern
\* hemisphere, the others in the western.
MaxBeyond == 1

Layouts == {"first", "last", "all", "none"}

IsEast(i, n, layout) ==
  \/ layout = "all"
  \/ layout = "first" /\ i = 1
  \/ layout = "last" /\ i = n

LongList(n, layout) ==
  [i \in 1..n |->
     [id |-> i, magnitude |-> 70 - (i \div 100), time |-> 1, lat |-> 10,
      lon |-> IF IsEast(i, n, layout) THEN 100 ELSE -120]]

LongSizes == {2 * MaxResultsOf(m) + x : m \in Modes, x \in 0..MaxBeyond}

InitLong ==
  /\ now = 1
  /\ \E n \in LongSizes, layout \in Layouts :
       mem = <<[key |-> CacheKey("24h", 0), ts |-> 0, features |-> LongList(n, layout)]>>
  /\ store = [k \in {} |-> 0] /\ storeWorks = TRUE
  /\ calls = [i \in Fetches |-> IdleCall]
  /\ cur = 0 /\ deps = DefaultDeps /\ phase = "idle"
  /\ allData = <<>> /\ fromCache = FALSE /\ error = Null /\ loading = TRUE
  /\ last = NoLast /\ clr = NoClear /\ dbn = NoDebounce /\ vis = NoVisible

\* the fetch effect with smart loading on, from its start to its .then callback
FetchWithBounds(mode, b) ==
  LET d == [DefaultDeps EXCEPT !.performanceMode = mode, !.bounds = b]
      c == SeqLookup(NewCall(d))
      r == WithBounds(c)
  IN /\ c.pc = "settled"
     /\ last' = [last EXCEPT !.n = 1, !.call = [c EXCEPT !.result = NoResult]]
     /\ deps' = d
     /\ allData' = DataAfter(r, allData)
     /\ fromCache' = FromCacheAfter(r, fromCache)
     /\ error' = ErrorAfter(r, error)
     /\ loading' = FALSE
     /\ UNCHANGED <<now, mem, store, storeWorks, calls, cur, phase, clr, dbn, vis>>

NextLong == \E mode \in Modes, b \in {NoBounds, EastBounds, WestBounds} : FetchWithBounds(mode, b)

SpecLong == InitLong /\ [][NextLong]_vars

\* C29: with smart loading on and bounds known, the fetched list holds every
\* in-bounds event of the feed but those that at least maxResults in-bounds
\* events precede in magnitude order.
C29_FilterBeforeTruncation ==
  (last.n = 1 /\ last.call.wrapped /\ last.call.bounds.present) =>
    LET inside == SelectSeq(mem[1].features, LAMBDA e : Within(e, last.call.bounds))
    IN {inside[k] : k \in 1..Min(Len(inside), last.call.wrapMax)} \subseteq Entries(allData)

(* ------------------ what the visible list leaves behind ---------------- *)
\* the list the last fetch delivered, as setAllData received it
Delivered ==
  SelectSeq(Normalized(vis.feed, 0),
            LAMBDA e : (vis.got.filtering /\ vis.got.bounds.present) => Within(e, vis.got.bounds))

\* C30: computing the visible list leaves allData as the fetch delivered it: the
\* same events in the same order.
C30_AllDataUntouched ==
  (vis.on /\ vis.got.some) => allData = Delivered

(* ------------------------- the reported statistics --------------------- *)
\* C31: the reported pre-truncation count is the number of events that pass the
\* geographic filter, and the culled count is that number minus the length of
\* the output.
C31_StatsDescribeList ==
  vis.on =>
    /\ vis.stats.viewport = Len(vis.ranked)
    /\ vis.stats.culled = Len(vis.ranked) - Len(vis.out)


(* --------------------------- seeds and members ------------------------- *)
\* the position of an event in the input (the events of an input are distinct)
PosOf(e) == CHOOSE i \in 1..Len(vis.earthquakes) : vis.earthquakes[i] = e

\* the positions held by the clusters before cluster c
ClaimedBefore(c) ==
  {PosOf(vis.clusters[d].points[k]) : <<d, k>> \in
     {<<d, k>> \in (1..(c - 1)) \X (1..MaxPoints) : k <= Len(vis.clusters[d].points)}}

\* C32: the first member of each cluster is the earliest event of the input that
\* no previous cluster holds; its other members are exactly the events no previous
\* cluster holds whose distance to the first member is strictly below the
\* threshold, and each of them comes later in the input than the first member.
C32_SeedAndMembers ==
  vis.done =>
    \A c \in 1..Len(vis.clusters) :
      LET ps == vis.clusters[c].points
          seed == PosOf(ps[1])
          free == (1..Len(vis.earthquakes)) \ ClaimedBefore(c)
          others == {PosOf(ps[k]) : k \in 2..Len(ps)}
      IN /\ seed \in free
         /\ \A j \in free : seed <= j
         /\ Cardinality(others) = Len(ps) - 1
         /\ others = {j \in free : j # seed
                                  /\ Near(vis.earthquakes[seed], vis.earthquakes[j], vis.zoom)}
         /\ \A j \in others : j > seed

\* a second cluster whose first member is close to an event the first cluster
\* holds, and a first cluster whose second member is not the second event
C32_Witness ==
  /\ vis.done /\ Len(vis.earthquakes) = 3 /\ Len(vis.clusters) = 2
  /\ Len(vis.clusters[1].points) = 2
  /\ vis.clusters[1].points[2] = vis.earthquakes[3]
  /\ vis.clusters[2].points = <<vis.earthquakes[2]>>
  /\ Near(vis.earthquakes[2], vis.earthquakes[3], vis.zoom)


(* ----------------------- clusters on the moving map -------------------- *)
\* MapView with its ViewportTracker and LightweightCluster: the map zooms, the
\* tracker reports the bounds 200 ms after the last zoomend, lists arrive, the
\* heatmap replaces the clusters and gives way to them again.
MaxZoomTime == 400
MaxZoomEnds == 2
INITIAL_ZOOM == 2
ZoomStep == TRACKER_DELAY \div 2
ZoomStops == {2, 5, 8, 12}

\* the whole world at zoom z, in the units of the events' coordinates
WorldUnitsAt(z) ==
  [present |-> TRUE, north |-> 90 * UNITS_PER_DEGREE, south |-> -90 * UNITS_PER_DEGREE,
   east |-> 180 * UNITS_PER_DEGREE, west |-> -180 * UNITS_PER_DEGREE, zoom |-> z]

\* the lists getEarthquakes returns: distinct events, magnitude descending
ZoomFeeds ==
  {f \in SeqsOf({e \in ClusterPool : e.id \in {"a", "b", "c", "f"}}, MaxPoints) :
     \A i \in 1..(Len(f) - 1) : Mag0(f[i].magnitude) >= Mag0(f[i + 1].magnitude)}

\* the effect of LightweightCluster
clustersFor(earthquakes, zoom) ==
  IF earthquakes = <<>> THEN <<>> ELSE createClusters(earthquakes, zoom)

\* mutant: the effect runs only when the content of the list has changed
AfterRenderMemo(v, data) ==
  LET w == Rendered(v, data)
  IN [w EXCEPT !.clusters = IF w.heat THEN <<>>
                            ELSE IF w.out = v.out THEN v.clusters
                            ELSE clustersFor(w.out, w.mapZoom)]

\* a render in which the useMemo has run: its result is a new array, so the
\* effect of a mounted LightweightCluster runs and reads the zoom of the map
AfterRender(v, data) ==
  LET w == Rendered(v, data)
  IN [w EXCEPT !.clusters = IF w.heat THEN <<>> ELSE clustersFor(w.out, w.mapZoom)]

InitZoom ==
  /\ now = 0
  /\ mem = <<>> /\ store = [k \in {} |-> 0] /\ storeWorks = TRUE
  /\ calls = [i \in Fetches |-> IdleCall]
  /\ cur = 1 /\ deps = DefaultDeps /\ phase = "idle"
  /\ allData = <<>> /\ fromCache = FALSE /\ error = Null /\ loading = TRUE
  /\ last = NoLast /\ clr = NoClear /\ dbn = NoDebounce
  /\ vis \in {[on |-> TRUE, engine |-> e, mapZoom |-> INITIAL_ZOOM, due |-> NoTimer,
               ends |-> 0, heat |-> FALSE,
               bounds |-> WorldUnitsAt(INITIAL_ZOOM), mode |-> "balanced", filtering |-> TRUE,
               ranked |-> <<>>, out |-> <<>>, stats |-> NoStats, data |-> <<>>,
               clusters |-> <<>>] : e \in {"insertion", "run"}}

ZoomFrame ==
  UNCHANGED <<now, mem, store, storeWorks, calls, cur, deps, phase, fromCache, error, loading,
              last, clr, dbn>>

\* zoomend: the map has a new zoom, debouncedUpdate sets the timer again
ZoomEnd(z) ==
  /\ vis.ends < MaxZoomEnds
  /\ z # vis.mapZoom
  /\ vis' = [vis EXCEPT !.mapZoom = z, !.due = now + TRACKER_DELAY, !.ends = vis.ends + 1]
  /\ UNCHANGED allData
  /\ ZoomFrame

\* updateBounds, then the render with the new viewportBounds
ZoomTrackerFire ==
  /\ vis.due # NoTimer /\ now >= vis.due
  /\ LET v == [vis EXCEPT !.due = NoTimer, !.bounds = WorldUnitsAt(vis.mapZoom)]
     IN /\ vis' = AfterRender(v, allData)
        /\ allData' = DataAfterRender(v, allData)
  /\ ZoomFrame

\* a fetch answers with a list: setAllData, then the render
ZoomReceive(f) ==
  /\ f # allData
  /\ vis' = AfterRender(vis, f)
  /\ allData' = DataAfterRender(vis, f)
  /\ ZoomFrame

\* setShowHeatmap: LightweightCluster is unmounted, or mounted and its effect runs
ToggleHeatmap ==
  /\ vis' = [vis EXCEPT !.heat = ~vis.heat,
                        !.clusters = IF vis.heat THEN clustersFor(vis.out, vis.mapZoom) ELSE <<>>]
  /\ UNCHANGED allData
  /\ ZoomFrame

ZoomTick ==
  /\ now + ZoomStep <= MaxZoomTime
  /\ vis.due = NoTimer \/ vis.due > now
  /\ now' = now + ZoomStep
  /\ UNCHANGED <<mem, store, storeWorks, fetchVars, aside>>

NextZoom ==
  \/ \E z \in ZoomStops : ZoomEnd(z)
  \/ ZoomTrackerFire
  \/ \E f \in ZoomFeeds : ZoomReceive(f)
  \/ ToggleHeatmap
  \/ ZoomTick

SpecZoom == InitZoom /\ [][NextZoom]_vars

\* C33: when no tracker timer is pending and the clusters are on the map, the
\* clusters are those createClusters yields for the list visibleData has returned
\* and the zoom the map has now.
C33_ClustersFollowListAndZoom ==
  (vis.due = NoTimer /\ ~vis.heat) => vis.clusters = createClusters(vis.out, vis.mapZoom)

\* the map has zoomed in, the timer has fired, and the list that was one cluster
\* at the first zoom is now two
C33_Witness ==
  /\ vis.due = NoTimer /\ ~vis.heat /\ vis.ends > 0
  /\ Len(vis.out) = 2 /\ Len(vis.clusters) = 2
  /\ Len(createClusters(vis.out, INITIAL_ZOOM)) = 1


(* ----------------------- the list that is clustered -------------------- *)
MAX_RENDERED == 2000

\* C34: the list visibleData returns, which is the earthquakes prop of
\* LightweightCluster and the argument of createClusters, is never longer than
\* the rendering limit for the zoom of the viewport and the performance mode,
\* and never longer than 2000.
C34_ClusteredListBounded ==
  vis.on =>
    /\ Len(vis.out) <= getSmartRenderingLimit(ZoomNow, Len(vis.ranked), vis.mode)
    /\ Len(vis.out) <= MAX_RENDERED

\* 2001 events are ranked; 2000 of them go on at the highest tier
C34_Witness ==
  /\ vis.on /\ Len(vis.ranked) = MaxTotal /\ vis.mode = "high" /\ ZoomNow >= 10
  /\ Len(vis.out) = MAX_RENDERED

\* 2001 events are ranked; 75 of them go on at the lowest tier
C34_WitnessLowest ==
  /\ vis.on /\ Len(vis.ranked) = MaxTotal /\ vis.mode = "performance" /\ ZoomNow < 4
  /\ Len(vis.out) = 75


(* --------------------------- the loading flag -------------------------- *)
\* the steps the code itself schedules: the effect's body after its cleanup, the
\* continuation after the durable lookup, the timeout, the rejection of an aborted
\* request, the .then callback, the clock. The arrival of headers or of a body
\* is up to the network.
SpecFair ==
  /\ Spec
  /\ WF_vars(EffectBody)
  /\ WF_vars(TickToTimer)
  /\ \A i \in Fetches :
       /\ WF_vars(DurableRead(i))
       /\ WF_vars(TimeoutFire(i))
       /\ WF_vars(AbortReject(i))
       /\ WF_vars(ThenHandler(i))

\* the latest fetch is pending: its promise chain has not reached the end of the
\* .then callback
Pending(i) == calls[i].pc \notin {"idle", "done"}

\* loading is true exactly while the latest fetch is pending
LoadingWhilePending ==
  (phase = "idle" /\ cur >= 1) => (loading <=> Pending(cur))

\* the latest fetch has ended and loading is false
LoadingWitness ==
  /\ phase = "idle" /\ cur >= 2 /\ ~loading /\ calls[cur].handled = "applied"
  /\ calls[cur].net = "abort"

\* C35: every fetch that is not superseded reaches one of its outcomes (its .then
\* callback runs, which sets loading to false), or is superseded.
C35_FetchReachesOutcome ==
  \A i \in Fetches :
    (Pending(i) /\ calls[i].mounted) ~> (calls[i].pc = "done" \/ ~calls[i].mounted)

\* the same for a fetch that awaits the response headers, where the timeout holds
FetchAwaitingHeadersEnds ==
  \A i \in Fetches :
    (calls[i].pc = "headers" /\ calls[i].mounted)
      ~> (calls[i].pc \in {"body", "done"} \/ ~calls[i].mounted)


(* ----------------------- fetchJson's timer and listener ---------------- *)
\* C36: when fetchJson settles its timer is cleared and its listener removed, and
\* the controller of a settled fetchJson is not aborted afterwards; when the
\* caller's signal is aborted on entry, fetchJson sets no listener, clears its
\* timer and aborts its controller before it calls fetch.
C36_TimerAndListenerCleared ==
  [][\A i \in Fetches :
       /\ (calls[i].pc \in {"headers", "body"} /\ calls'[i].pc = "settled")
            => (~calls'[i].timerArmed /\ ~calls'[i].listenerOn)
       /\ calls[i].pc \in {"settled", "done"}
            => /\ ~calls'[i].timerArmed /\ ~calls'[i].listenerOn
               /\ ~calls[i].ctrlAborted => ~calls'[i].ctrlAborted
       /\ (calls[i].pc = "dget" /\ calls'[i].pc = "headers" /\ calls[i].sigAborted)
            => /\ ~calls'[i].timerArmed /\ ~calls'[i].listenerOn
               /\ calls'[i].ctrlAborted /\ calls'[i].netIssued]_vars

\* a fetchJson that the effect's cleanup has aborted through its listener has settled
C36_Witness ==
  \E i \in Fetches :
    /\ calls[i].pc = "settled" /\ calls[i].net = "abort" /\ calls[i].sigAborted
    /\ calls[i].dRead /\ ~calls[i].timerArmed /\ ~calls[i].listenerOn

\* a fetchJson entered with an aborted signal awaits the rejection of its request
C36_WitnessAbortedOnEntry ==
  \E i \in Fetches :
    /\ calls[i].pc = "headers" /\ calls[i].sigAborted /\ calls[i].start = now
    /\ ~calls[i].listenerOn /\ ~calls[i].timerArmed /\ calls[i].ctrlAborted

\* a fetchJson whose timeout has fired has settled, its signal not aborted
C36_WitnessTimeout ==
  \E i \in Fetches :
    /\ calls[i].pc = "settled" /\ calls[i].net = "abort" /\ ~calls[i].sigAborted
    /\ ~calls[i].listenerOn


(* --------------------------- calls that fail --------------------------- *)
\* a step of call i other than the one in which it returns ok: true
FailingStep(i) ==
  /\ calls'[i] # calls[i]
  /\ ~(calls'[i].pc = "settled" /\ calls'[i].result.ok)

\* no setItem: every entry of the store was there before, with the same payload
NothingStored ==
  \A k \in DOMAIN store' : k \in DOMAIN store /\ store'[k] = store[k]

\* C37: a getEarthquakes call that ends with ok: false leaves the in-process map
\* as it is and puts nothing into the durable store: none of its steps changes
\* the map or sets an entry of the store (its lookup may remove an expired one).
C37_FailedCallStoresNothing ==
  [][\A i \in Fetches : FailingStep(i) => (mem' = mem /\ NothingStored)]_vars

\* C37 as stated: no step of such a call changes the map or the store.
C37_FailedCallLeavesStore ==
  [][\A i \in Fetches : FailingStep(i) => (mem' = mem /\ store' = store)]_vars

\* a call has ended with ok: false after a network failure while both tiers hold
\* entries
C37_Witness ==
  \E i \in Fetches :
    /\ calls[i].pc = "settled" /\ ~calls[i].result.ok /\ calls[i].netIssued
    /\ Len(mem) > 0 /\ DOMAIN store # {}


(* ------------------- the map's payloads and their readers -------------- *)
\* MapView and Charts call getEarthquakes for the same keys; MapView ranks the
\* array it has received in place. shared names the key of the map entry whose
\* array is the very array MapView holds as allData ("none": MapView holds a copy).
MaxShareTime == 300000
CHARTS_MAX_RESULTS == 2000
NotShared == "none"

ShareBodies == { <<RawV(56, 2, 100), RawV(60, 1, 100), RawV(52, 3, -120)>> }
ShareFloors == {0, 58}
ShareSteps == {CACHE_TTL}

\* mutant: a list within the cap is returned as it is
cappedWhenLonger(features, maxResults) ==
  IF maxResults # Absent /\ Len(features) > maxResults
  THEN [features |-> Slice(features, maxResults), shared |-> FALSE]
  ELSE [features |-> features, shared |-> TRUE]

\* typeof maxResults === 'number' ? features.slice(0, maxResults) : features
capped(features, maxResults) ==
  IF maxResults # Absent
  THEN [features |-> Slice(features, maxResults), shared |-> FALSE]
  ELSE [features |-> features, shared |-> TRUE]

\* one getEarthquakes call from its start to its return: the call, the map and the store
ShareCall(minMagnitude, maxResults, out) ==
  LET c0 == SeqStart("24h", minMagnitude, maxResults)
      k == KeyOf(c0)
      c1 == SeqLookup(c0)
      c2 == IF c1.pc = "settled" THEN c1 ELSE SeqNet(c1, out)
      m == IF c2.served = "memory" THEN mem
           ELSE IF c2.net = "ok"
           THEN EvictOldest(MemSet(mem, k, now, Normalized(out.body, minMagnitude)))
           ELSE MemAfterGetCache(k, getCache(k))
      st == IF c2.served = "memory" THEN store
            ELSE IF c2.net = "ok" THEN setCache(k, Normalized(out.body, minMagnitude), CACHE_TTL)
            ELSE StoreAfterGetCache(k)
  IN [call |-> c2, key |-> k, mem |-> m, store |-> st,
      wrote |-> c2.served # "memory" /\ c2.result.ok,
      shared |-> c2.result.ok /\ capped(m[MemIndexIn(m, k)].features, maxResults).shared]

\* the useMemo on the array data: the map entry that is this array is sorted with it
MemAfterRender(m, v, data) ==
  LET copied == ~v.filtering /\ v.bounds.present
      j == MemIndexIn(m, v.shared)
  IN IF v.shared = NotShared \/ j = 0 \/ copied \/ data = <<>> THEN m
     ELSE [m EXCEPT ![j].features = visibleData(v, data).ranked]

InitShare ==
  /\ now = 0
  /\ mem = <<>> /\ store \in InitialStores /\ storeWorks = TRUE
  /\ calls = [i \in Fetches |-> IdleCall]
  /\ cur = 1 /\ deps = DefaultDeps /\ phase = "idle"
  /\ allData = <<>> /\ fromCache = FALSE /\ error = Null /\ loading = TRUE
  /\ last = NoLast /\ clr = NoClear /\ dbn = NoDebounce
  /\ vis \in {[on |-> TRUE, engine |-> e, bounds |-> NoBounds, mode |-> "balanced",
               filtering |-> TRUE, shared |-> NotShared, ranked |-> <<>>,
               out |-> <<>>, stats |-> NoStats, data |-> <<>>] : e \in {"insertion", "run"}}

ShareFrame ==
  UNCHANGED <<now, storeWorks, calls, cur, deps, phase, last, clr, dbn>>

\* MapView's effect: the call, getEarthquakesWithBounds, the .then callback, the render
MapViewFetch(minMagnitude, out) ==
  LET max == MaxResultsOf(vis.mode)
      s == ShareCall(minMagnitude, IF vis.filtering THEN max * 2 ELSE max, out)
      c == [s.call EXCEPT !.wrapped = vis.filtering, !.wrapMax = max,
                          !.bounds = IF vis.filtering THEN vis.bounds ELSE NoBounds]
      r == WithBounds(c)
      filtered == vis.filtering /\ vis.bounds.present
      v == [vis EXCEPT !.shared = IF ~r.ok THEN vis.shared
                                  ELSE IF s.shared /\ ~filtered THEN s.key
                                  ELSE NotShared]
      data == DataAfter(r, allData)
  IN /\ vis' = Rendered(v, data)
     /\ allData' = DataAfterRender(v, data)
     /\ mem' = MemAfterRender(s.mem, v, data)
     /\ store' = s.store
     /\ fromCache' = FromCacheAfter(r, fromCache)
     /\ error' = ErrorAfter(r, error)
     /\ loading' = FALSE
     /\ ShareFrame

\* Charts' effect: the call and setData; Charts reads the list and leaves it as it is
ChartsFetch(minMagnitude, out) ==
  LET s == ShareCall(minMagnitude, CHARTS_MAX_RESULTS, out)
  IN /\ vis' = [vis EXCEPT !.shared = IF s.wrote /\ s.key = vis.shared THEN NotShared
                                      ELSE vis.shared]
     /\ mem' = s.mem
     /\ store' = s.store
     /\ UNCHANGED <<allData, fromCache, error, loading>>
     /\ ShareFrame

\* the viewport has moved: the useMemo runs again on allData
ShareSetViewportBounds(b) ==
  LET v == [vis EXCEPT !.bounds = b]
  IN /\ vis' = Rendered(v, allData)
     /\ allData' = DataAfterRender(v, allData)
     /\ mem' = MemAfterRender(mem, v, allData)
     /\ UNCHANGED <<store, fromCache, error, loading>>
     /\ ShareFrame

ShareToggleFiltering ==
  LET v == [vis EXCEPT !.filtering = ~vis.filtering]
  IN /\ vis' = Rendered(v, allData)
     /\ allData' = DataAfterRender(v, allData)
     /\ mem' = MemAfterRender(mem, v, allData)
     /\ UNCHANGED <<store, fromCache, error, loading>>
     /\ ShareFrame

\* the page is loaded again: the module and the components start afresh
ShareReload ==
  /\ mem # <<>>
  /\ mem' = <<>>
  /\ allData' = <<>> /\ fromCache' = FALSE /\ error' = Null /\ loading' = TRUE
  /\ vis' = [vis EXCEPT !.bounds = NoBounds, !.filtering = TRUE, !.shared = NotShared,
                        !.ranked = <<>>, !.out = <<>>, !.stats = NoStats]
  /\ UNCHANGED store
  /\ ShareFrame

NextShare ==
  \/ \E f \in ShareFloors, out \in NetOutcomes(ShareBodies) : MapViewFetch(f, out)
  \/ \E f \in ShareFloors, out \in NetOutcomes(ShareBodies) : ChartsFetch(f, out)
  \/ ShareSetViewportBounds(EastBounds)
  \/ ShareToggleFiltering
  \/ ShareReload
  \/ \E d \in ShareSteps : SeqTick(d, MaxShareTime)

SpecShare == InitShare /\ [][NextShare]_vars

\* the floor in a key "<feedURL>|min:F"
FloorOf(key) == CHOOSE f \in ShareFloors : CacheKey("24h", f) = key

\* C38: every payload of the in-process map is sorted by magnitude descending
\* and holds no event below the floor of its key, absent magnitudes counted as 0.
C38_PayloadsSortedAndFloored ==
  vis.on =>
    \A j \in 1..Len(mem) :
      LET p == mem[j].features
      IN /\ \A i \in 1..(Len(p) - 1) : Mag0(p[i].magnitude) >= Mag0(p[i + 1].magnitude)
         /\ \A i \in 1..Len(p) : Mag0(p[i].magnitude) >= FloorOf(mem[j].key)

\* MapView has ranked a list of three into another order than the map holds, and
\* the map holds entries for both floors
C38_Witness ==
  /\ vis.on /\ Len(mem) = 2 /\ Len(allData) = 3
  /\ \E j \in 1..Len(mem) : /\ Len(mem[j].features) = 3
                              /\ mem[j].features # allData
                              /\ Range(mem[j].features) = Range(allData)


(* ------------------- from the last input to the list ------------------- *)
\* The debounced inputs and the fetches they cause, together: inputs change a
\* bounded number of times, timers fire, each run of the effect aborts the
\* fetch before it and starts one, the fetches answer in any order. A fetch can
\* start while there is a record free for it (MaxFetches fetches under way).
MaxSettleChanges == 1

\* what the feed's list is for a floor and a viewport
Expected(minMagnitude, box) ==
  SelectSeq(Normalized(CHOOSE b \in Bodies : TRUE, minMagnitude), LAMBDA eq : InBounds(eq, box))

InputsOf(c) == [range |-> c.range, minMagnitude |-> c.minMagnitude, bounds |-> c.bounds]
LatestInputs ==
  [range |-> dbn.raw.range, minMagnitude |-> dbn.raw.minMagnitude, bounds |-> dbn.view]

InitSettle ==
  /\ now = 0
  /\ mem = <<>> /\ store = [k \in {} |-> 0] /\ storeWorks = FALSE
  /\ calls = [i \in Fetches |-> IF i = 1 THEN getEarthquakesEntry(NewCall(DefaultDeps))
                                ELSE IdleCall]
  /\ cur = 1 /\ deps = DefaultDeps /\ phase = "idle"
  /\ allData = <<>> /\ fromCache = FALSE /\ error = Null /\ loading = TRUE
  /\ last = NoLast /\ clr = NoClear /\ vis = NoVisible
  /\ dbn = [on |-> TRUE,
            raw |-> [range |-> "24h", minMagnitude |-> 0, bounds |-> [box |-> EastBounds, obj |-> 1]],
            deb |-> [range |-> "24h", minMagnitude |-> 0, bounds |-> NullBounds],
            due |-> [range |-> RANGE_DELAY, minMagnitude |-> MAGNITUDE_DELAY,
                     bounds |-> BOUNDS_DELAY, tracker |-> NoTimer],
            since |-> [range |-> 0, minMagnitude |-> 0, bounds |-> 0],
            burst |-> [range |-> 0, minMagnitude |-> 0, bounds |-> 1],
            view |-> EastBounds, changes |-> 0,
            cause |-> "mount", causeBurst |-> 0,
            shown |-> InputsOf(IdleCall), okCur |-> FALSE, stale |-> FALSE]

\* an input changes: useDebounce restarts the timer of that input; a moveend or
\* zoomend restarts ViewportTracker's timer
SettleInput ==
  /\ dbn.changes < MaxSettleChanges
  /\ \/ \E r \in {"24h", "7d"} :
          /\ r # dbn.raw.range
          /\ dbn' = [dbn EXCEPT !.raw.range = r, !.due = DueAfterChange(dbn.due, "range"),
                                !.changes = dbn.changes + 1]
     \/ \E m \in {0, 40} :
          /\ m # dbn.raw.minMagnitude
          /\ dbn' = [dbn EXCEPT !.raw.minMagnitude = m,
                                !.due = DueAfterChange(dbn.due, "minMagnitude"),
                                !.changes = dbn.changes + 1]
     \/ \E b \in {WestBounds} :
          dbn' = [dbn EXCEPT !.view = b, !.due.tracker = now + TRACKER_DELAY,
                             !.changes = dbn.changes + 1]
  /\ UNCHANGED <<now, mem, store, storeWorks, fetchVars, last, clr, vis>>

\* updateBounds: a new bounds object goes to setViewportBounds
SettleTrackerFire ==
  /\ dbn.due.tracker # NoTimer /\ now >= dbn.due.tracker
  /\ dbn' = [dbn EXCEPT !.raw.bounds = [box |-> dbn.view, obj |-> dbn.raw.bounds.obj + 1],
                        !.due = [DueAfterChange(dbn.due, "bounds") EXCEPT !.tracker = NoTimer]]
  /\ UNCHANGED <<now, mem, store, storeWorks, fetchVars, last, clr, vis>>

\* the records of finished and unused fetches
FreeSlots == {i \in Fetches : i # cur /\ calls[i].pc \in {"idle", "done"}}

\* the timer of x fires: setDebouncedValue(value); on a new value the effect's
\* cleanup and body run
SettleFire(x) ==
  /\ dbn.due[x] # NoTimer /\ now >= dbn.due[x]
  /\ LET fresh == dbn.raw[x] # dbn.deb[x]
         d == [dbn EXCEPT !.deb[x] = dbn.raw[x], !.due[x] = NoTimer]
     IN IF fresh
        THEN /\ FreeSlots # {}
             /\ LET i == CHOOSE j \in FreeSlots : \A k \in FreeSlots : j <= k
                IN /\ cur' = i
                   /\ deps' = DepsOf(d.deb)
                   /\ calls' = [calls EXCEPT ![cur] = EffectCleanupCall(calls[cur]),
                                              ![i] = getEarthquakesEntry(NewCall(deps'))]
             /\ dbn' = [d EXCEPT !.okCur = FALSE]
             /\ loading' = TRUE
             /\ error' = Null
        ELSE /\ dbn' = d
             /\ UNCHANGED <<cur, deps, calls, loading, error>>
  /\ UNCHANGED <<now, mem, store, storeWorks, phase, allData, fromCache, last, clr, vis>>

\* the .then callback of the effect, for the fetch i
SettleThen(i) ==
  /\ calls[i].pc = "settled"
  /\ calls' = [calls EXCEPT ![i] = Finished(calls[i])]
  /\ IF Handles(calls[i])
     THEN /\ allData' = DataAfter(WithBounds(calls[i]), allData)
          /\ fromCache' = FromCacheAfter(WithBounds(calls[i]), fromCache)
          /\ error' = ErrorAfter(WithBounds(calls[i]), error)
          /\ loading' = FALSE
          /\ dbn' = [dbn EXCEPT !.okCur = calls[i].result.ok,
                                !.shown = IF calls[i].result.ok THEN InputsOf(calls[i])
                                          ELSE dbn.shown]
     ELSE /\ UNCHANGED <<allData, fromCache, error, loading>>
          /\ dbn' = [dbn EXCEPT !.stale = TRUE]
  /\ UNCHANGED <<now, mem, store, storeWorks, cur, deps, phase, last, clr, vis>>

\* the steps of a fetch between its start and its return
SettleCallStep(i) ==
  \/ DurableRead(i)
  \/ AbortReject(i)

\* what the network does for the fetch i
SettleResponse(i) ==
  \/ \E ok \in BOOLEAN : HeadersArrive(i, ok)
  \/ \E body \in Bodies : BodyArrive(i, body)

\* the timers of the inputs; the fetches answer before FETCH_TIMEOUT has passed
SettleDeadlines == {dbn.due[y] : y \in {z \in DOMAIN dbn.due : dbn.due[z] # NoTimer}}

\* time passes up to the next timer
SettleTick ==
  /\ \E t \in SettleDeadlines : /\ t > now
                                 /\ \A u \in SettleDeadlines : t <= u
                                 /\ now' = t
  /\ UNCHANGED <<mem, store, storeWorks, fetchVars, aside>>

NextSettle ==
  \/ SettleInput
  \/ SettleTrackerFire
  \/ \E x \in Inputs : SettleFire(x)
  \/ \E i \in Fetches : SettleCallStep(i)
  \/ \E i \in Fetches : SettleResponse(i)
  \/ \E i \in Fetches : SettleThen(i)
  \/ SettleTick

SpecSettle == InitSettle /\ [][NextSettle]_vars

\* timers fire, the code's own steps are taken, and every request gets a response:
\* the headers arrive, and no fetch stays at the reading of its body
SpecSettleFair ==
  /\ SpecSettle
  /\ WF_vars(SettleTrackerFire)
  /\ WF_vars(SettleTick)
  /\ \A x \in Inputs : WF_vars(SettleFire(x))
  /\ \A i \in Fetches :
       /\ WF_vars(SettleCallStep(i))
       /\ WF_vars(\E ok \in BOOLEAN : HeadersArrive(i, ok))
       /\ []<>(calls[i].pc # "body")
       /\ WF_vars(SettleThen(i))

\* loading is false and the latest fetch has run its callback
AtRest == ~loading /\ calls[cur].pc = "done"

\* allData is the list of the fetch issued for the latest inputs
ShowsLatest ==
  /\ dbn.shown = LatestInputs
  /\ allData = Expected(dbn.raw.minMagnitude, dbn.view)

\* C39 as amended: once the inputs have stopped changing, loading is false from
\* some moment on, and from then on allData is the list of the fetch issued for
\* the latest range, minimum magnitude and bounds whenever that fetch returned a
\* list.
C39_SettlesOnLatest ==
  <>[](/\ AtRest
       /\ dbn.okCur => ShowsLatest)

\* C39 as stated: ... allData is the list of the fetch issued for the latest inputs.
C39_AlwaysShowsLatest ==
  <>[](AtRest /\ ShowsLatest)

\* the inputs have changed twice, the latest fetch has put its list on, and the
\* answer of an earlier fetch has come later and been dropped
C39_Witness ==
  /\ dbn.on /\ dbn.changes = MaxSettleChanges /\ AtRest /\ dbn.okCur /\ ShowsLatest
  /\ dbn.stale
  /\ \A y \in DOMAIN dbn.due : dbn.due[y] = NoTimer
  /\ LatestInputs # InputsOf(NewCall(DefaultDeps))

====
